---- MODULE Spec2Model ----
(***************************************************************************)
(* Catalog reconciliation pipeline of the warehouse inventory backend:     *)
(* row normalisation (excel_parser.py), catalog merge (save_to_database),  *)
(* snapshot retraction (delete_file), seasonal drop and the status         *)
(* endpoints (main.py, seasonal_drop.py).                                  *)
(*                                                                         *)
(* Python strings that the code parses (style tokens, colors, item ids)    *)
(* are sequences of one-character strings, so that prefix/suffix tests,    *)
(* zero padding and lexicographic sorting are computed as the code does.   *)
(* Strings the code only stores or compares for equality (descriptive      *)
(* cells, image references, statuses, row ids) are TLA+ strings.           *)
(***************************************************************************)
EXTENDS Integers, Sequences, FiniteSets, TLC

VARIABLES
    items,              \* table items: id -> Item row
    style_summary,      \* table style_summary: style -> StyleSummary row
    file_uploads,       \* table file_uploads: filename -> FileUpload row
    inventory_actions,  \* table inventory_actions, in insertion (id) order
    images,             \* file names present under static/images
    last,               \* the last request and the response it produced
    nreq,               \* number of requests served so far
    sessions            \* open save_to_database sessions of concurrent merges

vars == <<items, style_summary, file_uploads, inventory_actions, images, last, nreq,
          sessions>>

\* Python None / pandas NaN of an optional cell or column.
None == "<None>"

(***************************************************************************)
(* Characters and strings                                                  *)
(***************************************************************************)

\* The characters used, in ascending code point order (ASCII).
AsciiTable ==
    << " ", "(", ")", "+", "-", ".",
       "0", "1", "2", "3", "4", "5", "6", "7", "8", "9",
       "A", "B", "C", "D", "E", "F", "G", "H", "I", "J", "K", "L", "M",
       "N", "O", "P", "Q", "R", "S", "T", "U", "V", "W", "X", "Y", "Z",
       "_",
       "a", "b", "c", "d", "e", "f", "g", "h", "i", "j", "k", "l", "m",
       "n", "o", "p", "q", "r", "s", "t", "u", "v", "w", "x", "y", "z" >>

Digits == {"0", "1", "2", "3", "4", "5", "6", "7", "8", "9"}

UpperCase == <<"A", "B", "C", "D", "E", "F", "G", "H", "I", "J", "K", "L", "M",
               "N", "O", "P", "Q", "R", "S", "T", "U", "V", "W", "X", "Y", "Z">>
LowerCase == <<"a", "b", "c", "d", "e", "f", "g", "h", "i", "j", "k", "l", "m",
               "n", "o", "p", "q", "r", "s", "t", "u", "v", "w", "x", "y", "z">>

\* Rank of each character in code point order: ord(c) up to an increasing map.
OrdTable ==
    [c \in {AsciiTable[i] : i \in 1..Len(AsciiTable)} |->
        CHOOSE i \in 1..Len(AsciiTable) : AsciiTable[i] = c]

Ord(c) == OrdTable[c]

\* str.lower() on one character and on a string.
LowerTable ==
    [c \in {AsciiTable[i] : i \in 1..Len(AsciiTable)} |->
        IF \E i \in 1..Len(UpperCase) : UpperCase[i] = c
        THEN LowerCase[CHOOSE i \in 1..Len(UpperCase) : UpperCase[i] = c]
        ELSE c]

LowerChar(c) == LowerTable[c]

Lower(s) == [i \in 1..Len(s) |-> LowerChar(s[i])]

\* str.endswith(suffix)
EndsWith(s, suffix) ==
    /\ Len(s) >= Len(suffix)
    /\ SubSeq(s, Len(s) - Len(suffix) + 1, Len(s)) = suffix

\* Python's order on str: lexicographic by code point, a proper prefix first.
RECURSIVE StrLess(_, _)
StrLess(s, t) ==
    IF t = <<>> THEN FALSE
    ELSE IF s = <<>> THEN TRUE
    ELSE IF s[1] = t[1] THEN StrLess(Tail(s), Tail(t))
    ELSE Ord(s[1]) < Ord(t[1])

\* sorted(set_of_str)
RECURSIVE SortedStrs(_)
SortedStrs(S) ==
    IF S = {} THEN <<>>
    ELSE LET m == CHOOSE x \in S : \A y \in S \ {x} : StrLess(x, y)
         IN  <<m>> \o SortedStrs(S \ {m})

\* Elements of a sequence as a set: set(list)
Range(seq) == {seq[i] : i \in 1..Len(seq)}

\* list(dict.fromkeys(list)): drop repeats, keep first occurrences in order.
RECURSIVE DedupKeepFirst(_)
DedupKeepFirst(seq) ==
    IF seq = <<>> THEN <<>>
    ELSE LET front == DedupKeepFirst(SubSeq(seq, 1, Len(seq) - 1))
             x     == seq[Len(seq)]
         IN  IF x \in Range(front) THEN front ELSE Append(front, x)

\* Width of the zero padding applied to a base style.
PadWidth == 6

\* str.zfill(width): pad with zeros on the left, after a leading sign.
RECURSIVE Zeros(_)
Zeros(n) == IF n <= 0 THEN <<>> ELSE <<"0">> \o Zeros(n - 1)

zfill(s, width) ==
    IF Len(s) >= width THEN s
    ELSE IF Len(s) > 0 /\ s[1] \in {"+", "-"}
         THEN <<s[1]>> \o Zeros(width - Len(s)) \o Tail(s)
         ELSE Zeros(width - Len(s)) \o s

(***************************************************************************)
(* Row Normalizer (InventoryParser)                                        *)
(***************************************************************************)

\* Longest prefix of digits: group(1) of re.match(r'^(\d+)', style), <<>> if none.
RECURSIVE LeadingDigits(_)
LeadingDigits(s) ==
    IF s = <<>> \/ s[1] \notin Digits THEN <<>>
    ELSE <<s[1]>> \o LeadingDigits(Tail(s))

\* Faulty variant of extract_base_style: the width suffix is not removed.
extract_base_style_keeps_suffix(style) == style

extract_base_style(style) ==
    IF LeadingDigits(style) # <<>> THEN LeadingDigits(style) ELSE style

\* Faulty variant of extract_variant: the single w is tested first, so a ww
\* token is taken for a w token.
extract_variant_w_first(style) ==
    IF EndsWith(Lower(style), <<"w">>) THEN <<"w">>
    ELSE IF EndsWith(Lower(style), <<"w", "w">>) THEN <<"w", "w">>
    ELSE <<>>

extract_variant(style) ==
    IF EndsWith(Lower(style), <<"w", "w">>) THEN <<"w", "w">>
    ELSE IF EndsWith(Lower(style), <<"w">>) THEN <<"w">>
    ELSE <<>>

\* f"{color} ({variant})" if variant else color
ColorWithVariant(color, variant) ==
    IF variant # <<>> THEN color \o <<" ", "(">> \o variant \o <<")">> ELSE color

RowColor(row) == ColorWithVariant(row.color, extract_variant(row.style))

\* f"{base_style_6digit}_{color_with_variant}"
ItemId(style6, color) == style6 \o <<"_">> \o color

(***************************************************************************)
(* Workbooks and file names of the requests                                *)
(***************************************************************************)

FileA == <<"a", ".", "x", "l", "s", "x">>
FileB == <<"b", ".", "x", "l", "s", "x">>
NotExcel == <<"n", ".", "t", "x", "t">>
Files == {FileA, FileB}

BLK == <<"B", "L", "K">>
RED == <<"R", "E", "D">>
Style10045  == <<"1", "0", "0", "4", "5">>
Style10045w == <<"1", "0", "0", "4", "5", "w">>
Style104437 == <<"1", "0", "4", "4", "3", "7">>

MkRow(style, color, division, outsole, gender, image) ==
    [ style |-> style, color |-> color, division |-> division,
      outsole |-> outsole, gender |-> gender, image |-> image ]

Row10045Blk    == MkRow(Style10045,  BLK, "SPORT", "FLEX", "MENS", None)
Row10045wBlk   == MkRow(Style10045w, BLK, "SPORT", "FLEX", "MENS", None)
Row10045Red    == MkRow(Style10045,  RED, "KIDS",  "GRIP", "BOYS", "red.png")
Row10045BlkRev == MkRow(Style10045,  BLK, "KIDS",  "GRIP", "BOYS", "blk.png")
Row104437Blk   == MkRow(Style104437, BLK, "SPORT", "FLEX", "MENS", None)

MkSheet(rows, image_rows) ==
    [has_required |-> TRUE, rows |-> rows, image_rows |-> image_rows, loadable |-> TRUE]

\* The workbooks uploaded: one style in regular and wide width; the same
\* style with a second color first and revised cells for the first; a
\* six-digit style alone; both styles; a workbook without a color column.
SheetWidths  == MkSheet(<<Row10045Blk, Row10045wBlk>>, {1})
SheetRevised == MkSheet(<<Row10045Red, Row10045BlkRev>>, {})
SheetOther   == MkSheet(<<Row104437Blk>>, {})
SheetBoth    == MkSheet(<<Row10045Blk, Row104437Blk>>, {})
SheetNoColor == [has_required |-> FALSE, rows |-> <<>>, image_rows |-> {}, loadable |-> TRUE]

Sheets == {SheetWidths, SheetRevised, SheetOther, SheetBoth, SheetNoColor}

(***************************************************************************)
(* InventoryParser: the data frame and styles_data                         *)
(*                                                                         *)
(* A sheet is [has_required, rows, image_rows, loadable]: whether the       *)
(* header holds the style and color columns, the data rows in sheet order  *)
(* (cells after astype(str)/str()), the 0-based container rows at which an *)
(* image is anchored, and whether openpyxl can load the workbook.          *)
(* A row is [style, color, division, outsole, gender, image].              *)
(***************************************************************************)

\* str(cell) of a descriptive cell: NaN prints as "nan".
StrCell(c) == IF c = None THEN "nan" ELSE c

\* str(cell) if pd.notna(cell) else 'N/A'
CellOrNA(c) == IF c = None THEN "N/A" ELSE c

BaseStyles(df) == {extract_base_style(df[i].style) : i \in 1..Len(df)}

\* self.df[self.df['base_style'] == base_style]
StyleRows(df, base_style) ==
    SelectSeq(df, LAMBDA r : extract_base_style(r.style) = base_style)

RowColors(rows) == [i \in 1..Len(rows) |-> RowColor(rows[i])]

\* One entry of styles_data.
StyleData(df, base_style) ==
    LET group  == StyleRows(df, base_style)
        colors == DedupKeepFirst(RowColors(group))
    IN  [ style       |-> base_style,
          colors      |-> colors,
          division    |-> CellOrNA(group[1].division),
          outsole     |-> CellOrNA(group[1].outsole),
          gender      |-> CellOrNA(group[1].gender),
          color_count |-> Len(colors) ]

\* styles_data in dict order: groupby('base_style') yields the groups in
\* sorted key order.
process_styles(df) ==
    LET keys == SortedStrs(BaseStyles(df))
    IN  [i \in 1..Len(keys) |-> StyleData(df, keys[i])]

\* get_all_styles()
get_all_styles(df) == BaseStyles(df)

(***************************************************************************)
(* Catalog Merger: save_to_database                                        *)
(*                                                                         *)
(* The merge is a sequence of writes in one session: per style group, one  *)
(* Item upsert for the first row of every canonical color, then the        *)
(* StyleSummary upsert. A session is [items, style_summary]; queries in    *)
(* the loop see the session's own earlier writes (autoflush).              *)
(***************************************************************************)

\* Faulty variant of FirstRows: no row is skipped, so a later duplicate row
\* writes the Item again.
FirstRowsKeepsAll(rows) == rows

\* Rows of a group that pass the processed_colors test: the first row of
\* each canonical color.
FirstRows(rows) ==
    LET cs == RowColors(rows)
        keep == {i \in 1..Len(rows) : \A j \in 1..(i - 1) : cs[j] # cs[i]}
        RECURSIVE Pick(_)
        Pick(i) == IF i > Len(rows) THEN <<>>
                   ELSE (IF i \in keep THEN <<rows[i]>> ELSE <<>>) \o Pick(i + 1)
    IN  Pick(1)

\* image_url of a row: the image cell when present, else None.
RowImageUrl(row) == row.image

\* Faulty variant of AddSourceFile: the list is replaced, not extended.
ReplaceSourceFile(files, filename) == <<filename>>

\* sorted(list(set(files) | {filename}))
AddSourceFile(files, filename) == SortedStrs(Range(files) \cup {filename})

\* The writes of one style group, in loop order.
GroupSteps(df, style_data) ==
    LET rows == FirstRows(StyleRows(df, style_data.style))
    IN  [i \in 1..Len(rows) |-> [kind |-> "item", style_data |-> style_data, row |-> rows[i]]]
        \o << [kind |-> "summary", style_data |-> style_data, row |-> None] >>

RECURSIVE FlattenSteps(_, _, _)
FlattenSteps(df, styles_data, i) ==
    IF i > Len(styles_data) THEN <<>>
    ELSE GroupSteps(df, styles_data[i]) \o FlattenSteps(df, styles_data, i + 1)

ParseSteps(df) == FlattenSteps(df, process_styles(df), 1)

\* The writes of each workbook, computed once.
StepsOfSheets == [df \in {sh.rows : sh \in Sheets} |-> ParseSteps(df)]

MergeSteps(df) == IF df \in DOMAIN StepsOfSheets THEN StepsOfSheets[df] ELSE ParseSteps(df)

\* Faulty variant of UpsertItem: the image reference of an existing Item is
\* overwritten even when the row supplies none.
UpsertItemOverwritesImage(session, source_filename, style_data, row) ==
    LET base_style_6digit == zfill(style_data.style, PadWidth)
        color_with_variant == RowColor(row)
        image_url == RowImageUrl(row)
        item_id == ItemId(base_style_6digit, color_with_variant)
    IN  IF item_id \in DOMAIN session.items
        THEN LET existing_item == session.items[item_id]
             IN  [session EXCEPT !.items[item_id] =
                    [existing_item EXCEPT
                        !.division = StrCell(row.division),
                        !.outsole  = StrCell(row.outsole),
                        !.gender   = StrCell(row.gender),
                        !.image_url = image_url,
                        !.source_files = AddSourceFile(@, source_filename)]]
        ELSE [session EXCEPT !.items = @ @@ (item_id :>
                    [ id           |-> item_id,
                      style        |-> base_style_6digit,
                      color        |-> color_with_variant,
                      division     |-> StrCell(row.division),
                      outsole      |-> StrCell(row.outsole),
                      gender       |-> StrCell(row.gender),
                      image_url    |-> image_url,
                      source_files |-> <<source_filename>>,
                      status       |-> "pending",
                      row_id       |-> None ])]

\* Faulty variant of UpsertItem: a new Item is created with the status placed.
UpsertItemNewPlaced(session, source_filename, style_data, row) ==
    LET base_style_6digit == zfill(style_data.style, PadWidth)
        color_with_variant == RowColor(row)
        image_url == RowImageUrl(row)
        item_id == ItemId(base_style_6digit, color_with_variant)
    IN  IF item_id \in DOMAIN session.items
        THEN LET existing_item == session.items[item_id]
             IN  [session EXCEPT !.items[item_id] =
                    [existing_item EXCEPT
                        !.division = StrCell(row.division),
                        !.outsole  = StrCell(row.outsole),
                        !.gender   = StrCell(row.gender),
                        !.image_url = IF image_url # None THEN image_url ELSE @,
                        !.source_files = AddSourceFile(@, source_filename)]]
        ELSE [session EXCEPT !.items = @ @@ (item_id :>
                    [ id           |-> item_id,
                      style        |-> base_style_6digit,
                      color        |-> color_with_variant,
                      division     |-> StrCell(row.division),
                      outsole      |-> StrCell(row.outsole),
                      gender       |-> StrCell(row.gender),
                      image_url    |-> image_url,
                      source_files |-> <<source_filename>>,
                      status       |-> "placed",
                      row_id       |-> None ])]

\* Lines 273-310: update the existing Item or add a new one.
UpsertItem(session, source_filename, style_data, row) ==
    LET base_style_6digit == zfill(style_data.style, PadWidth)
        color_with_variant == RowColor(row)
        image_url == RowImageUrl(row)
        item_id == ItemId(base_style_6digit, color_with_variant)
    IN  IF item_id \in DOMAIN session.items
        THEN LET existing_item == session.items[item_id]
             IN  [session EXCEPT !.items[item_id] =
                    [existing_item EXCEPT
                        !.division = StrCell(row.division),
                        !.outsole  = StrCell(row.outsole),
                        !.gender   = StrCell(row.gender),
                        !.image_url = IF image_url # None THEN image_url ELSE @,
                        !.source_files = AddSourceFile(@, source_filename)]]
        ELSE [session EXCEPT !.items = @ @@ (item_id :>
                    [ id           |-> item_id,
                      style        |-> base_style_6digit,
                      color        |-> color_with_variant,
                      division     |-> StrCell(row.division),
                      outsole      |-> StrCell(row.outsole),
                      gender       |-> StrCell(row.gender),
                      image_url    |-> image_url,
                      source_files |-> <<source_filename>>,
                      status       |-> "pending",
                      row_id       |-> None ])]

\* The color list a new StyleSummary is created with (line 332).
NewSummaryColors(style_data) == style_data.colors

\* Faulty variant of UpsertSummary: color_count is incremented by the size of
\* the incoming color list instead of being recomputed from the merged list.
UpsertSummaryIncremental(session, source_filename, style_data) ==
    LET base_style_6digit == zfill(style_data.style, PadWidth)
    IN  IF base_style_6digit \in DOMAIN session.style_summary
        THEN LET existing_summary == session.style_summary[base_style_6digit]
                 merged_colors == SortedStrs(Range(existing_summary.all_colors)
                                             \cup Range(style_data.colors))
             IN  [session EXCEPT !.style_summary[base_style_6digit] =
                    [existing_summary EXCEPT
                        !.all_colors   = merged_colors,
                        !.source_files = AddSourceFile(@, source_filename),
                        !.color_count  = @ + Len(style_data.colors)]]
        ELSE [session EXCEPT !.style_summary = @ @@ (base_style_6digit :>
                    [ style        |-> base_style_6digit,
                      all_colors   |-> NewSummaryColors(style_data),
                      division     |-> style_data.division,
                      outsole      |-> style_data.outsole,
                      gender       |-> style_data.gender,
                      source_files |-> <<source_filename>>,
                      color_count  |-> style_data.color_count ])]

\* Lines 312-339: update the existing StyleSummary or add a new one.
UpsertSummary(session, source_filename, style_data) ==
    LET base_style_6digit == zfill(style_data.style, PadWidth)
    IN  IF base_style_6digit \in DOMAIN session.style_summary
        THEN LET existing_summary == session.style_summary[base_style_6digit]
                 merged_colors == SortedStrs(Range(existing_summary.all_colors)
                                             \cup Range(style_data.colors))
             IN  [session EXCEPT !.style_summary[base_style_6digit] =
                    [existing_summary EXCEPT
                        !.all_colors   = merged_colors,
                        !.source_files = AddSourceFile(@, source_filename),
                        !.color_count  = Len(merged_colors)]]
        ELSE [session EXCEPT !.style_summary = @ @@ (base_style_6digit :>
                    [ style        |-> base_style_6digit,
                      all_colors   |-> NewSummaryColors(style_data),
                      division     |-> style_data.division,
                      outsole      |-> style_data.outsole,
                      gender       |-> style_data.gender,
                      source_files |-> <<source_filename>>,
                      color_count  |-> style_data.color_count ])]

ApplyStep(session, source_filename, step) ==
    IF step.kind = "item"
    THEN UpsertItem(session, source_filename, step.style_data, step.row)
    ELSE UpsertSummary(session, source_filename, step.style_data)

\* The session after the first n writes of the merge.
RECURSIVE MergePrefix(_, _, _, _)
MergePrefix(session, source_filename, steps, n) ==
    IF n = 0 THEN session
    ELSE ApplyStep(MergePrefix(session, source_filename, steps, n - 1),
                   source_filename, steps[n])

\* Faulty variant of Rollback: the writes made before the error stay.
RollbackKeepsWrites(committed, session) == session

\* session.rollback() / session.close() without commit: the store keeps the
\* rows it had when the session began.
Rollback(committed, session) == committed

\* save_to_database(source_filename). fault = [failed, after]: when failed,
\* the store raises after `after` writes, the session is rolled back and the
\* error is raised to the caller; otherwise every write is made and committed.
save_to_database(committed, source_filename, df, fault) ==
    LET steps == MergeSteps(df)
    IN  IF ~fault.failed
        THEN [ ok |-> TRUE,
               db |-> MergePrefix(committed, source_filename, steps, Len(steps)),
               items_saved |-> Cardinality({i \in 1..Len(steps) : steps[i].kind = "item"}),
               styles_processed |-> Cardinality({i \in 1..Len(steps) : steps[i].kind = "summary"}) ]
        ELSE [ ok |-> FALSE,
               db |-> Rollback(committed,
                               MergePrefix(committed, source_filename, steps, fault.after)),
               items_saved |-> 0,
               styles_processed |-> 0 ]

\* The fault-free run and the runs that fail after n of the merge's writes.
NoFault == [failed |-> FALSE, after |-> 0]
MergeFaults(df) == {[failed |-> TRUE, after |-> n] : n \in 0..(Len(MergeSteps(df)) - 1)}

(***************************************************************************)
(* Image-Row Matcher: extract_images_to_folder                             *)
(***************************************************************************)

RECURSIVE LStrip(_)
LStrip(s) == IF s # <<>> /\ s[1] = " " THEN LStrip(Tail(s)) ELSE s

RECURSIVE RStrip(_)
RStrip(s) == IF s # <<>> /\ s[Len(s)] = " " THEN RStrip(SubSeq(s, 1, Len(s) - 1)) ELSE s

\* str.strip()
Strip(s) == RStrip(LStrip(s))

\* sorted(images_by_row.items()): the anchor rows in ascending order.
RECURSIVE SortedInts(_)
SortedInts(S) ==
    IF S = {} THEN <<>>
    ELSE LET m == CHOOSE x \in S : \A y \in S : x <= y
         IN  <<m>> \o SortedInts(S \ {m})

\* Faulty variant of ImageFileName: the header offset is not subtracted, so the
\* image is named from the row below its own.
ImageFileNameNoOffset(df, excel_row_idx) ==
    LET df_row_idx == excel_row_idx
    IN  IF df_row_idx < 0 \/ df_row_idx >= Len(df) THEN <<>>
        ELSE LET row_data  == df[df_row_idx + 1]
                 style_raw == Strip(row_data.style)
                 color_raw == Strip(row_data.color)
                 nan       == <<"n", "a", "n">>
             IN  IF style_raw = <<>> \/ color_raw = <<>>
                    \/ style_raw = nan \/ color_raw = nan THEN <<>>
                 ELSE IF LeadingDigits(style_raw) = <<>> THEN <<>>
                 ELSE LET style_clean == zfill(LeadingDigits(style_raw), PadWidth)
                          color_clean == ColorWithVariant(color_raw, extract_variant(style_raw))
                      IN  style_clean \o <<"_">> \o color_clean
                          \o <<".", "j", "p", "g">>

\* Lines 169-199: the file name an anchor row maps to, or the empty string
\* when the row is skipped (out of range, blank cell, style without leading digits).
ImageFileName(df, excel_row_idx) ==
    LET df_row_idx == excel_row_idx - 1
    IN  IF df_row_idx < 0 \/ df_row_idx >= Len(df) THEN <<>>
        ELSE LET row_data  == df[df_row_idx + 1]
                 style_raw == Strip(row_data.style)
                 color_raw == Strip(row_data.color)
                 nan       == <<"n", "a", "n">>
             IN  IF style_raw = <<>> \/ color_raw = <<>>
                    \/ style_raw = nan \/ color_raw = nan THEN <<>>
                 ELSE IF LeadingDigits(style_raw) = <<>> THEN <<>>
                 ELSE LET style_clean == zfill(LeadingDigits(style_raw), PadWidth)
                          color_clean == ColorWithVariant(color_raw, extract_variant(style_raw))
                      IN  style_clean \o <<"_">> \o color_clean
                          \o <<".", "j", "p", "g">>

\* write_fail: the anchor rows whose image cannot be read or written.
RECURSIVE ExtractLoop(_, _, _, _, _)
ExtractLoop(df, rows, i, write_fail, acc) ==
    IF i > Len(rows) THEN acc
    ELSE LET name == ImageFileName(df, rows[i])
         IN  IF name = <<>> \/ rows[i] \in write_fail
             THEN ExtractLoop(df, rows, i + 1, write_fail,
                              [acc EXCEPT !.skipped = @ + 1])
             ELSE ExtractLoop(df, rows, i + 1, write_fail,
                              [acc EXCEPT !.extracted = @ + 1,
                                          !.files = @ \cup {name}])

\* When load_workbook raises, lines 235-241 report 0 extracted, 0 skipped.
extract_images_to_folder(dir, sheet, write_fail) ==
    IF ~sheet.loadable
    THEN [extracted |-> 0, skipped |-> 0, files |-> dir]
    ELSE ExtractLoop(sheet.rows, SortedInts(sheet.image_rows), 1, write_fail,
                     [extracted |-> 0, skipped |-> 0, files |-> dir])

\* main.get_image_url_for_item(style, color) over the files of the image
\* folder: the file name when the file exists, else the empty string.
get_image_url_for_item(style, color, folder) ==
    LET image_filename == style \o <<"_">> \o color \o <<".", "j", "p", "g">>
    IN  IF image_filename \in folder THEN image_filename ELSE <<>>

(***************************************************************************)
(* The store                                                               *)
(***************************************************************************)

Catalog == [items |-> items, style_summary |-> style_summary]

\* filename.endswith(('.xlsx', '.xls'))
IsExcelName(filename) ==
    \/ EndsWith(filename, <<".", "x", "l", "s", "x">>)
    \/ EndsWith(filename, <<".", "x", "l", "s">>)

\* The rows of table rows (warehouse locations) that exist.
ExistingRows == {"row1"}

ValidStatuses == {"pending", "placed", "showroom", "waitlist", "dropped"}
AllowedActions == {"placed", "showroom", "waitlist", "dropped"}

\* str.lower() on the status words the requests carry.
LowerWord(v) ==
    CASE v = "Placed"  -> "placed"
      [] v = "DROPPED" -> "dropped"
      [] OTHER         -> v

(***************************************************************************)
(* POST /upload-excel                                                      *)
(***************************************************************************)

\* Lines 187-199: the FileUpload row is created, or set back to processing.
TrackUpload(uploads, filename) ==
    IF filename \in DOMAIN uploads
    THEN [uploads EXCEPT ![filename].status = "processing"]
    ELSE uploads @@ (filename :>
            [ filename |-> filename, status |-> "processing",
              styles_count |-> 0, items_count |-> 0, images_uploaded |-> 0 ])

\* Lines 253-266: the except branch marks the FileUpload row failed.
MarkFailed(uploads, filename) == [uploads EXCEPT ![filename].status = "failed"]

\* Faulty variant of KeepArtifacts: a failed merge takes the files written by
\* the request with it.
RemoveArtifactsOnFailure(before, written, merge_ok) ==
    IF merge_ok THEN written ELSE before

\* Lines 253-266: the except branch deletes no image file; the folder holds
\* what the extraction left whether or not the merge succeeded.
KeepArtifacts(before, written, merge_ok) == written

\* upload_excel(file, upload_images). sheet is the workbook's content,
\* write_fail the images that cannot be written, fault the store's failure
\* during the merge, if any.
upload_excel(filename, sheet, upload_images, write_fail, fault) ==
    /\ nreq' = nreq + 1
    /\ IF ~IsExcelName(filename)
       THEN /\ UNCHANGED <<items, style_summary, file_uploads, inventory_actions, images>>
            /\ last' = [op |-> "upload_excel", code |-> 400, filename |-> filename,
                        sheet |-> sheet, merge_failed |-> FALSE, repeat |-> FALSE]
       ELSE IF ~sheet.has_required
       THEN \* InventoryParser raises ValueError after the FileUpload commit
            /\ file_uploads' = MarkFailed(TrackUpload(file_uploads, filename), filename)
            /\ UNCHANGED <<items, style_summary, inventory_actions, images>>
            /\ last' = [op |-> "upload_excel", code |-> 500, filename |-> filename,
                        sheet |-> sheet, merge_failed |-> FALSE, repeat |-> FALSE]
       ELSE LET image_result == IF upload_images
                                THEN extract_images_to_folder(images, sheet, write_fail)
                                ELSE [extracted |-> 0, skipped |-> 0, files |-> images]
                result == save_to_database(Catalog, filename, sheet.rows, fault)
            IN  /\ images' = KeepArtifacts(images, image_result.files, result.ok)
                /\ items' = result.db.items
                /\ style_summary' = result.db.style_summary
                /\ UNCHANGED inventory_actions
                /\ file_uploads' =
                     IF result.ok
                     THEN [TrackUpload(file_uploads, filename) EXCEPT ![filename] =
                             [@ EXCEPT !.status = "completed",
                                       !.styles_count = result.styles_processed,
                                       !.items_count = result.items_saved,
                                       !.images_uploaded = image_result.extracted]]
                     ELSE MarkFailed(TrackUpload(file_uploads, filename), filename)
                /\ last' = [op |-> "upload_excel",
                            code |-> IF result.ok THEN 200 ELSE 500,
                            filename |-> filename, sheet |-> sheet,
                            items_saved |-> result.items_saved,
                            styles_processed |-> result.styles_processed,
                            images_uploaded |-> image_result.extracted,
                            merge_failed |-> fault.failed,
                            writes_lost |-> IF fault.failed THEN fault.after ELSE 0,
                            before |-> Catalog,
                            upload_images |-> upload_images,
                            write_fail |-> write_fail,
                            repeat |-> /\ result.ok
                                       /\ last.op = "upload_excel"
                                       /\ last.code = 200
                                       /\ last.filename = filename
                                       /\ last.sheet = sheet]

(***************************************************************************)
(* DELETE /inventory/file/{filename}                                       *)
(***************************************************************************)

ItemsOfStyle(its, style) == {id \in DOMAIN its : its[id].style = style}

\* All enumerations of a finite set.
RECURSIVE Perms(_)
Perms(S) ==
    IF S = {} THEN {<<>>}
    ELSE UNION {{<<x>> \o p : p \in Perms(S \ {x})} : x \in S}

\* The orders in which db.query(Item).filter_by(style=...).all() may return
\* the rows of each of the given styles (the query has no ORDER BY):
\* style -> list of ids.
QueryOrders(its, styles) ==
    LET all == UNION {Perms(ItemsOfStyle(its, st)) : st \in styles}
    IN  {scan \in [styles -> all] :
            \A st \in styles : scan[st] \in Perms(ItemsOfStyle(its, st))}

\* The file is in the provenance of some Item or StyleSummary of the catalog.
InProvenance(filename, catalog) ==
    \/ \E id \in DOMAIN catalog.items :
          filename \in Range(catalog.items[id].source_files)
    \/ \E st \in DOMAIN catalog.style_summary :
          filename \in Range(catalog.style_summary[st].source_files)

\* Faulty variant of RemoveSourceFile: the list is left as it is.
RemoveSourceFileKeepsAll(files, filename) == files

\* item.source_files = [f for f in item.source_files if f != filename]
RemoveSourceFile(files, filename) == SelectSeq(files, LAMBDA f : f # filename)

\* Faulty variant of RetractItems: the file is struck from every Item that
\* lists it and no Item is deleted.
RetractItemsStripOnly(its, filename) ==
    LET to_update == {id \in DOMAIN its : filename \in Range(its[id].source_files)}
    IN  [ items |-> [id \in DOMAIN its |->
                        IF id \in to_update
                        THEN [its[id] EXCEPT !.source_files = RemoveSourceFile(@, filename)]
                        ELSE its[id]],
          deleted |-> {},
          updated |-> to_update ]

\* Faulty variant of RetractItems: every Item that lists the file is deleted.
RetractItemsDeleteAll(its, filename) ==
    LET to_delete == {id \in DOMAIN its : filename \in Range(its[id].source_files)}
    IN  [ items |-> [id \in DOMAIN its \ to_delete |-> its[id]],
          deleted |-> to_delete,
          updated |-> {} ]

\* Lines 805-822: Items whose only source is the file are deleted, the others
\* that list it lose it.
RetractItems(its, filename) ==
    LET to_delete == {id \in DOMAIN its :
                        /\ filename \in Range(its[id].source_files)
                        /\ Len(its[id].source_files) = 1}
        to_update == {id \in DOMAIN its :
                        /\ filename \in Range(its[id].source_files)
                        /\ Len(its[id].source_files) # 1}
    IN  [ items |-> [id \in DOMAIN its \ to_delete |->
                        IF id \in to_update
                        THEN [its[id] EXCEPT !.source_files = RemoveSourceFile(@, filename)]
                        ELSE its[id]],
          deleted |-> to_delete,
          updated |-> to_update ]

\* Faulty variant of SummaryGoes: a StyleSummary is never deleted, only updated.
SummaryGoesNever(summary, remaining_items) == FALSE

\* Line 834: the StyleSummary is deleted rather than updated.
SummaryGoes(summary, remaining_items) ==
    remaining_items = 0 \/ Len(summary.source_files) = 1

\* Faulty variant of RetractSummaries: a kept StyleSummary loses the file but
\* its colors are not recounted.
RetractSummariesStale(sums, its, filename, scan) ==
    LET touched == {st \in DOMAIN sums : filename \in Range(sums[st].source_files)}
        gone    == {st \in touched :
                      SummaryGoes(sums[st], Cardinality(ItemsOfStyle(its, sums[st].style)))}
    IN  [ style_summary |-> [st \in DOMAIN sums \ gone |->
                               IF st \in touched
                               THEN [sums[st] EXCEPT
                                       !.source_files = RemoveSourceFile(@, filename)]
                               ELSE sums[st]],
          deleted |-> gone,
          updated |-> touched \ gone ]

\* Lines 827-846 over the Items left by RetractItems; scan gives the order of
\* the rows the recount query returns.
RetractSummaries(sums, its, filename, scan) ==
    LET touched == {st \in DOMAIN sums : filename \in Range(sums[st].source_files)}
        gone    == {st \in touched :
                      SummaryGoes(sums[st], Cardinality(ItemsOfStyle(its, sums[st].style)))}
    IN  [ style_summary |-> [st \in DOMAIN sums \ gone |->
                               IF st \in touched
                               THEN LET ids == scan[sums[st].style]
                                        colors == [i \in 1..Len(ids) |-> its[ids[i]].color]
                                    IN  [sums[st] EXCEPT
                                           !.source_files = RemoveSourceFile(@, filename),
                                           !.all_colors = colors,
                                           !.color_count = Len(colors)]
                               ELSE sums[st]],
          deleted |-> gone,
          updated |-> touched \ gone ]

\* Faulty variant of RollbackDelete: the Item writes flushed before the error
\* stay in the store.
RollbackDeleteKeepsItems(committed, session) ==
    [committed EXCEPT !.items = session.items]

\* Lines 867-869: db.rollback() discards every write of the request.
RollbackDelete(committed, session) == committed

\* Faulty variant of DeleteActionsOfFile: the actions are left in the table.
DeleteActionsOfFileKeepsAll(actions, filename) == actions

\* Line 849: db.query(InventoryAction).filter_by(source_file=filename).delete()
DeleteActionsOfFile(actions, filename) ==
    SelectSeq(actions, LAMBDA a : a.source_file # filename)

\* delete_file(filename). scan: the row order of the recount queries;
\* fault: the store raises after the Item writes and before the commit, and
\* the session is rolled back.
delete_file(filename, scan, fault) ==
    /\ nreq' = nreq + 1
    /\ UNCHANGED images
    /\ IF filename \notin DOMAIN file_uploads
       THEN /\ UNCHANGED <<items, style_summary, file_uploads, inventory_actions>>
            /\ last' = [op |-> "delete_file", code |-> 404, filename |-> filename]
       ELSE IF fault
       THEN LET ri == RetractItems(items, filename)
                db == RollbackDelete(Catalog, [items |-> ri.items,
                                               style_summary |-> style_summary])
            IN  /\ items' = db.items
                /\ style_summary' = db.style_summary
                /\ UNCHANGED <<file_uploads, inventory_actions>>
                /\ last' = [op |-> "delete_file", code |-> 500, filename |-> filename]
       ELSE LET ri == RetractItems(items, filename)
                rs == RetractSummaries(style_summary, ri.items, filename, scan)
                kept == DeleteActionsOfFile(inventory_actions, filename)
            IN  /\ items' = ri.items
                /\ style_summary' = rs.style_summary
                /\ inventory_actions' = kept
                /\ file_uploads' = [f \in DOMAIN file_uploads \ {filename} |-> file_uploads[f]]
                /\ last' = [op |-> "delete_file", code |-> 200, filename |-> filename,
                            items_deleted |-> Cardinality(ri.deleted),
                            items_updated |-> Cardinality(ri.updated),
                            styles_deleted |-> Cardinality(rs.deleted),
                            styles_updated |-> Cardinality(rs.updated),
                            actions_deleted |-> Len(inventory_actions) - Len(kept),
                            round_trip |-> /\ last.op = "upload_excel"
                                           /\ last.code = 200
                                           /\ last.filename = filename
                                           /\ ~InProvenance(filename, last.before)]

(***************************************************************************)
(* Status operations                                                       *)
(***************************************************************************)

\* style.zfill(6) if len(style) == 5 else style
NormalizeRequestStyle(style) == IF Len(style) = 5 THEN zfill(style, PadWidth) ELSE style

\* Faulty variant of SourceFileAccepted: the file named is not looked up.
SourceFileAcceptedAlways(item, source_file) == TRUE

\* Line 355: a source_file, when given, must be one of the Item's files.
SourceFileAccepted(item, source_file) ==
    source_file = <<>> \/ source_file \in Range(item.source_files)

\* POST /action. req = [style, color, action, source_file].
record_action(req) ==
    LET action == LowerWord(req.action)
        style  == NormalizeRequestStyle(req.style)
        found  == {id \in DOMAIN items :
                     items[id].style = style /\ items[id].color = req.color}
    IN  /\ nreq' = nreq + 1
        /\ UNCHANGED <<style_summary, file_uploads, images>>
        /\ IF action \notin AllowedActions
           THEN /\ UNCHANGED <<items, inventory_actions>>
                /\ last' = [op |-> "record_action", code |-> 422, action |-> req.action,
                            req |-> req]
           ELSE IF found = {}
           THEN /\ UNCHANGED <<items, inventory_actions>>
                /\ last' = [op |-> "record_action", code |-> 404, action |-> req.action,
                            req |-> req]
           ELSE \E id \in found :
                  IF ~SourceFileAccepted(items[id], req.source_file)
                  THEN /\ UNCHANGED <<items, inventory_actions>>
                       /\ last' = [op |-> "record_action", code |-> 400,
                                   action |-> req.action, req |-> req]
                  ELSE /\ inventory_actions' = Append(inventory_actions,
                              [ item_id |-> id, style |-> style, color |-> req.color,
                                action |-> action,
                                source_file |-> IF req.source_file # <<>>
                                                THEN req.source_file
                                                ELSE items[id].source_files[1] ])
                       /\ items' = [items EXCEPT ![id].status = action]
                       /\ last' = [op |-> "record_action", code |-> 200,
                                   action |-> req.action, req |-> req]

\* Faulty variant of update_item_status: the status is written unvalidated.
update_item_status_unchecked(item_id, status) ==
    /\ nreq' = nreq + 1
    /\ UNCHANGED <<style_summary, file_uploads, inventory_actions, images>>
    /\ IF item_id \notin DOMAIN items
       THEN /\ UNCHANGED items
            /\ last' = [op |-> "update_item_status", code |-> 404, status |-> status]
       ELSE /\ items' = [items EXCEPT ![item_id].status = status]
            /\ last' = [op |-> "update_item_status", code |-> 200, status |-> status]

\* PUT /inventory/items/{item_id}/status
update_item_status(item_id, status) ==
    /\ nreq' = nreq + 1
    /\ UNCHANGED <<style_summary, file_uploads, inventory_actions, images>>
    /\ IF item_id \notin DOMAIN items
       THEN /\ UNCHANGED items
            /\ last' = [op |-> "update_item_status", code |-> 404, status |-> status]
       ELSE IF status \notin ValidStatuses
       THEN /\ UNCHANGED items
            /\ last' = [op |-> "update_item_status", code |-> 400, status |-> status]
       ELSE /\ items' = [items EXCEPT ![item_id].status = status]
            /\ last' = [op |-> "update_item_status", code |-> 200, status |-> status]

\* PUT /inventory/items/bulk-status
bulk_update_status(from_status, to_status) ==
    /\ nreq' = nreq + 1
    /\ UNCHANGED <<style_summary, file_uploads, inventory_actions, images>>
    /\ IF from_status \notin ValidStatuses \/ to_status \notin ValidStatuses
       THEN /\ UNCHANGED items
            /\ last' = [op |-> "bulk_update_status", code |-> 400,
                        from_status |-> from_status, to_status |-> to_status]
       ELSE /\ items' = [id \in DOMAIN items |->
                           IF items[id].status = from_status
                           THEN [items[id] EXCEPT !.status = to_status]
                           ELSE items[id]]
            /\ last' = [op |-> "bulk_update_status", code |-> 200,
                        from_status |-> from_status, to_status |-> to_status]

\* The styles whose StyleSummary delete_file(filename) recounts.
RecountedStyles(filename) ==
    LET its == RetractItems(items, filename).items
    IN  {style_summary[st].style : st \in
            {st \in DOMAIN style_summary :
                /\ filename \in Range(style_summary[st].source_files)
                /\ ~SummaryGoes(style_summary[st],
                                Cardinality(ItemsOfStyle(its, style_summary[st].style)))}}

(***************************************************************************)
(* POST /seasonal-drop: process_seasonal_drop                              *)
(***************************************************************************)

\* Lines 33-35: item.style.zfill(6) not in active_styles
NotInSeason(item, active_styles) == zfill(item.style, PadWidth) \notin active_styles

\* Faulty variant of MarkDropped: an Item already dropped is set back to pending.
MarkDroppedToggle(item) ==
    [item EXCEPT !.status = IF @ = "dropped" THEN "pending" ELSE "dropped"]

\* Lines 36-38: the Item after being marked.
MarkDropped(item) == [item EXCEPT !.status = "dropped"]

\* Faulty variant of DropItems: the Items out of season are deleted.
DropItemsDelete(its, active_styles) ==
    [id \in {i \in DOMAIN its : ~NotInSeason(its[i], active_styles)} |-> its[id]]

\* Lines 31-56: the Items after the loop and the commit.
DropItems(its, active_styles) ==
    [id \in DOMAIN its |->
        IF NotInSeason(its[id], active_styles) THEN MarkDropped(its[id]) ELSE its[id]]

process_seasonal_drop(sheet) ==
    /\ nreq' = nreq + 1
    /\ UNCHANGED <<style_summary, file_uploads, inventory_actions, images>>
    /\ IF ~sheet.has_required
       THEN /\ UNCHANGED items
            /\ last' = [op |-> "seasonal_drop", code |-> 500, sheet |-> sheet,
                        repeat |-> FALSE]
       ELSE LET active_styles == get_all_styles(sheet.rows)
                dropped == {id \in DOMAIN items : NotInSeason(items[id], active_styles)}
            IN  /\ items' = DropItems(items, active_styles)
                /\ last' = [op |-> "seasonal_drop", code |-> 200, sheet |-> sheet,
                            active_styles_count |-> Cardinality(active_styles),
                            dropped_count |-> Cardinality(dropped),
                            kept_count |-> Cardinality(DOMAIN items \ dropped),
                            repeat |-> /\ last.op = "seasonal_drop"
                                       /\ last.code = 200
                                       /\ last.sheet = sheet]

(***************************************************************************)
(* PUT /items/{item_id}/location                                           *)
(***************************************************************************)

\* update_item_location(item_id, row_id). For an unknown id the handler
\* builds Item(..., unverified=1); Item declares no such column, so the
\* constructor raises and nothing is added. For a known id the change is
\* committed before the response is built.
update_item_location(item_id, row_id) ==
    /\ nreq' = nreq + 1
    /\ UNCHANGED <<style_summary, file_uploads, inventory_actions, images>>
    /\ IF item_id \notin DOMAIN items
       THEN /\ UNCHANGED items
            /\ last' = [op |-> "update_item_location",
                        code |-> IF "_" \in Range(item_id) THEN 500 ELSE 404]
       ELSE IF row_id # None /\ row_id \notin ExistingRows
       THEN /\ UNCHANGED items
            /\ last' = [op |-> "update_item_location", code |-> 404]
       ELSE /\ items' = [items EXCEPT ![item_id] =
                           IF row_id # None
                           THEN [@ EXCEPT !.row_id = row_id, !.status = "placed"]
                           ELSE [@ EXCEPT !.row_id = None, !.status = "pending"]]
            /\ last' = [op |-> "update_item_location", code |-> 500]

(***************************************************************************)
(* Requests                                                                *)
(***************************************************************************)

\* Number of requests served in a run.
MaxRequests == 4

Id10045Blk == ItemId(zfill(Style10045, PadWidth), BLK)
IdUnknown  == ItemId(<<"9", "9", "9", "9", "9", "9">>, RED)

ActionRequests ==
    { [style |-> Style10045, color |-> BLK, action |-> "Placed", source_file |-> <<>>],
      [style |-> zfill(Style10045, PadWidth), color |-> RED, action |-> "showroom",
       source_file |-> FileA],
      [style |-> Style104437, color |-> BLK, action |-> "sold", source_file |-> <<>>] }

StatusUpdates == {"waitlist", "archived"}
BulkUpdates == {<<"pending", "showroom">>, <<"dropped", "pending">>, <<"pending", "lost">>}
RowChoices == {None, "row1", "row9"}

Init ==
    /\ items = <<>>
    /\ style_summary = <<>>
    /\ file_uploads = <<>>
    /\ inventory_actions = <<>>
    /\ images = {}
    /\ last = [op |-> "init", code |-> 0]
    /\ nreq = 0
    /\ sessions = <<>>

UploadExcel ==
    /\ nreq < MaxRequests
    /\ UNCHANGED sessions
    /\ \/ \E f \in Files, sh \in Sheets :
            \E fault \in {NoFault} \cup MergeFaults(sh.rows) :
                upload_excel(f, sh, TRUE, {}, fault)
       \/ upload_excel(NotExcel, SheetOther, TRUE, {}, NoFault)

DeleteFile ==
    /\ nreq < MaxRequests
    /\ UNCHANGED sessions
    /\ \E f \in Files :
         \E scan \in QueryOrders(RetractItems(items, f).items, RecountedStyles(f)) :
            \E fault \in BOOLEAN : delete_file(f, scan, fault)

RecordAction ==
    /\ nreq < MaxRequests
    /\ UNCHANGED sessions
    /\ \E req \in ActionRequests : record_action(req)

UpdateItemStatus ==
    /\ nreq < MaxRequests
    /\ UNCHANGED sessions
    /\ \E id \in DOMAIN items \cup {IdUnknown}, st \in StatusUpdates :
         update_item_status(id, st)

BulkUpdateStatus ==
    /\ nreq < MaxRequests
    /\ UNCHANGED sessions
    /\ \E b \in BulkUpdates : bulk_update_status(b[1], b[2])

UpdateItemLocation ==
    /\ nreq < MaxRequests
    /\ UNCHANGED sessions
    /\ \E id \in {Id10045Blk, IdUnknown}, r \in RowChoices : update_item_location(id, r)

SeasonalDrop ==
    /\ nreq < MaxRequests
    /\ UNCHANGED sessions
    /\ \E sh \in Sheets : process_seasonal_drop(sh)

Next ==
    \/ UploadExcel
    \/ DeleteFile
    \/ RecordAction
    \/ UpdateItemStatus
    \/ BulkUpdateStatus
    \/ UpdateItemLocation
    \/ SeasonalDrop

Spec == Init /\ [][Next]_vars

(***************************************************************************)
(* Properties                                                              *)
(***************************************************************************)

\* Provenance of an Item or StyleSummary row, as a set.
Prov(row) == Range(row.source_files)

\* The canonical ids of a workbook's rows.
SheetItemIds(sheet) ==
    {ItemId(zfill(extract_base_style(r.style), PadWidth), RowColor(r)) :
        r \in Range(sheet.rows)}

\* The distinct colors of the Items of a style.
ColorsOfStyle(its, style) == {its[id].color : id \in ItemsOfStyle(its, style)}

Uploaded     == last.op = "upload_excel" /\ last.code = 200
Retracted    == last.op = "delete_file" /\ last.code = 200
SeasonMarked == last.op = "seasonal_drop" /\ last.code = 200

\* C1: every Item that exists has a non-empty source_files list.
C1_ProvenanceNonEmpty ==
    \A id \in DOMAIN items : items[id].source_files # <<>>

\* C1 witness: a retraction has deleted one Item and struck the file from
\* another, which is still there.
C1_Witness ==
    /\ Retracted
    /\ last.items_deleted > 0
    /\ last.items_updated > 0
    /\ \E id \in DOMAIN items : Len(items[id].source_files) = 1

\* C2: the color_count of every StyleSummary is the number of distinct
\* colors among the Items of its style that exist.
C2_ColorCountMatches ==
    \A st \in DOMAIN style_summary :
        style_summary[st].color_count
            = Cardinality(ColorsOfStyle(items, style_summary[st].style))

\* C2 witness: a retraction recounted a StyleSummary that still has two or
\* more colors, after an ingestion had merged into it.
C2_Witness ==
    /\ Retracted
    /\ last.styles_updated > 0
    /\ \E st \in DOMAIN style_summary : style_summary[st].color_count >= 2

\* C3: a successful ingestion of file F adds F to the provenance of every
\* Item its rows name and keeps what was there (union, never replacement);
\* each such id names exactly one Item; Items it does not name keep their
\* provenance.
C3_ProvenanceUnion ==
    [][ (last'.op = "upload_excel" /\ last'.code = 200 /\ nreq' = nreq + 1) =>
          LET f   == last'.filename
              ids == SheetItemIds(last'.sheet)
          IN  /\ \A id \in ids :
                    /\ id \in DOMAIN items'
                    /\ Cardinality({j \in DOMAIN items' :
                                      /\ items'[j].style = items'[id].style
                                      /\ items'[j].color = items'[id].color}) = 1
                    /\ Prov(items'[id]) =
                         (IF id \in DOMAIN items THEN Prov(items[id]) ELSE {}) \cup {f}
                    /\ Len(items'[id].source_files) = Cardinality(Prov(items'[id]))
              /\ \A id \in DOMAIN items \ ids :
                    id \in DOMAIN items' /\ Prov(items'[id]) = Prov(items[id])
      ]_vars

\* C3 witness: after ingesting a.xlsx and b.xlsx, an Item named by both has
\* provenance {a.xlsx, b.xlsx}.
C3_Witness ==
    /\ Uploaded
    /\ \E id \in SheetItemIds(last.sheet) \cap DOMAIN items :
          Prov(items[id]) = {FileA, FileB}

\* C4: ingesting the same workbook under the same file name a second time
\* changes no Item id, no provenance, no color list and no color_count.
C4_ReingestChangesNothing ==
    [][ (last'.op = "upload_excel" /\ last'.repeat /\ nreq' = nreq + 1) =>
          /\ DOMAIN items' = DOMAIN items
          /\ \A id \in DOMAIN items : items'[id].source_files = items[id].source_files
          /\ DOMAIN style_summary' = DOMAIN style_summary
          /\ \A st \in DOMAIN style_summary :
                /\ style_summary'[st].all_colors = style_summary[st].all_colors
                /\ style_summary'[st].source_files = style_summary[st].source_files
                /\ style_summary'[st].color_count = style_summary[st].color_count
      ]_vars

\* C5: retracting file F deletes the Items whose provenance is {F}; strikes F
\* from the Items that list F with another file and changes nothing else of
\* them; leaves every other Item as it was; and adds no Item.
C5_RetractionOnItems ==
    [][ (last'.op = "delete_file" /\ last'.code = 200 /\ nreq' = nreq + 1) =>
          LET f == last'.filename
          IN  /\ DOMAIN items' \subseteq DOMAIN items
              /\ \A id \in DOMAIN items :
                    LET p == Prov(items[id])
                    IN  /\ (p = {f}) => id \notin DOMAIN items'
                        /\ (f \in p /\ p # {f}) =>
                              /\ id \in DOMAIN items'
                              /\ Prov(items'[id]) = p \ {f}
                              /\ [items'[id] EXCEPT !.source_files = items[id].source_files]
                                    = items[id]
                        /\ (f \notin p) =>
                              id \in DOMAIN items' /\ items'[id] = items[id]
      ]_vars

\* C5 witness: a retraction deleted a single-source Item and struck the file
\* from a multi-source Item whose status is no longer pending.
C5_Witness ==
    /\ Retracted
    /\ last.items_deleted > 0
    /\ last.items_updated > 0
    /\ \E id \in DOMAIN items : items[id].status # "pending"

\* C6: on retracting F, a StyleSummary that lists F is deleted exactly when no
\* Item of its style is left; otherwise it stays, F is struck from its
\* provenance and its color list and color_count are those of the Items of
\* the style that are left. A StyleSummary that does not list F is unchanged.
C6_RetractionOnSummaries ==
    [][ (last'.op = "delete_file" /\ last'.code = 200 /\ nreq' = nreq + 1) =>
          LET f == last'.filename
          IN  /\ DOMAIN style_summary' \subseteq DOMAIN style_summary
              /\ \A st \in DOMAIN style_summary :
                    LET old  == style_summary[st]
                        left == ColorsOfStyle(items', old.style)
                    IN  IF f \in Prov(old)
                        THEN /\ (st \notin DOMAIN style_summary') <=> (left = {})
                             /\ (left # {}) =>
                                   /\ Prov(style_summary'[st]) = Prov(old) \ {f}
                                   /\ Range(style_summary'[st].all_colors) = left
                                   /\ Len(style_summary'[st].all_colors) = Cardinality(left)
                                   /\ style_summary'[st].color_count = Cardinality(left)
                        ELSE st \in DOMAIN style_summary' /\ style_summary'[st] = old
      ]_vars

\* C6 witness: one retraction deleted a StyleSummary and recounted another.
C6_Witness ==
    /\ Retracted
    /\ last.styles_deleted > 0
    /\ last.styles_updated > 0

\* The base styles of a workbook, zero-padded as the Items' styles are.
PaddedStyles(sheet) == {zfill(b, PadWidth) : b \in get_all_styles(sheet.rows)}

\* C7: a seasonal drop marks dropped every Item whose 6-digit style is not
\* among the zero-padded base styles of the active workbook and leaves the
\* status of every other Item as it was.
C7_DropByPaddedStyle ==
    [][ (last'.op = "seasonal_drop" /\ last'.code = 200 /\ nreq' = nreq + 1) =>
          /\ DOMAIN items' = DOMAIN items
          /\ \A id \in DOMAIN items :
                IF items[id].style \in PaddedStyles(last'.sheet)
                THEN items'[id].status = items[id].status
                ELSE items'[id].status = "dropped"
      ]_vars

\* C8: a seasonal drop run again with the same active workbook, with no
\* request in between, changes nothing in the store.
C8_DropIdempotent ==
    [][ (last'.op = "seasonal_drop" /\ last'.repeat /\ nreq' = nreq + 1) =>
          /\ items' = items
          /\ style_summary' = style_summary
          /\ file_uploads' = file_uploads
          /\ inventory_actions' = inventory_actions
          /\ images' = images
      ]_vars

\* C8 witness: the second of two equal seasonal drops has run over a catalog
\* that holds dropped Items and Items it keeps.
C8_Witness ==
    /\ SeasonMarked
    /\ last.repeat
    /\ last.dropped_count > 0
    /\ last.kept_count > 0

StatusOps == {"seasonal_drop", "record_action", "update_item_status", "bulk_update_status"}

\* C9: seasonal drop, record_action, update_item_status and
\* bulk_update_status add and delete no Item, change no provenance of an Item
\* or StyleSummary, and add no StyleSummary or FileUpload row.
C9_StatusOpsKeepProvenance ==
    [][ (last'.op \in StatusOps /\ nreq' = nreq + 1) =>
          /\ DOMAIN items' = DOMAIN items
          /\ \A id \in DOMAIN items : items'[id].source_files = items[id].source_files
          /\ style_summary' = style_summary
          /\ file_uploads' = file_uploads
      ]_vars

\* C9 witness: a seasonal drop has marked Items of a catalog in which an
\* action was recorded before.
C9_Witness ==
    /\ SeasonMarked
    /\ last.dropped_count > 0
    /\ inventory_actions # <<>>

C11_MissingColumnWritesNothing ==
    [][ (last'.op = "upload_excel" /\ nreq' = nreq + 1 /\ ~last'.sheet.has_required) =>
          /\ items' = items
          /\ style_summary' = style_summary
          /\ file_uploads' = file_uploads
      ]_vars

\* Whether file f is named anywhere in the store.
FileNamedIn(f, its, sums, uploads, actions) ==
    \/ f \in DOMAIN uploads
    \/ \E id \in DOMAIN its : f \in Prov(its[id])
    \/ \E st \in DOMAIN sums : f \in Prov(sums[st])
    \/ \E i \in 1..Len(actions) : actions[i].source_file = f

\* C12: a retraction is all or nothing. When it succeeds, the FileUpload row
\* is gone and no Item, StyleSummary or action names the file any more; when
\* it fails, or the file has no FileUpload row (answer 404), the Items,
\* StyleSummaries, actions and FileUpload rows are as they were.
C12_RetractionAtomic ==
    [][ (last'.op = "delete_file" /\ nreq' = nreq + 1) =>
          LET f == last'.filename
          IN  /\ (f \notin DOMAIN file_uploads) <=> (last'.code = 404)
              /\ IF last'.code = 200
                 THEN ~FileNamedIn(f, items', style_summary', file_uploads',
                                   inventory_actions')
                 ELSE /\ items' = items
                      /\ style_summary' = style_summary
                      /\ file_uploads' = file_uploads
                      /\ inventory_actions' = inventory_actions
      ]_vars

\* C12 witness: a retraction failed on a file that Items and recorded actions
\* name, and they are all still there.
C12_Witness ==
    /\ last.op = "delete_file"
    /\ last.code = 500
    /\ \E id \in DOMAIN items : last.filename \in Prov(items[id])
    /\ \E i \in 1..Len(inventory_actions) :
          inventory_actions[i].source_file = last.filename

\* The 6-digit key of a raw style token that starts with a digit.
PaddedDigitRun(token) == zfill(LeadingDigits(token), PadWidth)

\* The canonical colors a workbook has for the 6-digit style st.
SheetColorsOf(sheet, st) ==
    {RowColor(r) : r \in {x \in Range(sheet.rows) : PaddedDigitRun(x.style) = st}}

\* Number of occurrences of x in a list.
Occurrences(seq, x) == Cardinality({i \in 1..Len(seq) : seq[i] = x})

\* C13: after a workbook is ingested, the rows whose style tokens share a
\* leading digit run belong to one StyleSummary keyed by that run zero-padded
\* to 6 digits; its color list holds each canonical color of those rows once
\* (BLK and BLK (w) for tokens 10045 and 10045w), color_count is the length
\* of the list, and there is one Item per canonical color. Ingested into an
\* empty catalog, rows (10045, BLK) and (10045w, BLK) give the one summary
\* 010045 with colors [BLK, BLK (w)] and color_count 2.
C13_WidthRowsShareOneSummary ==
    [][ (last'.op = "upload_excel" /\ last'.code = 200 /\ nreq' = nreq + 1) =>
          /\ \A r \in Range(last'.sheet.rows) :
                LET st == PaddedDigitRun(r.style)
                    c  == RowColor(r)
                IN  /\ st \in DOMAIN style_summary'
                    /\ style_summary'[st].style = st
                    /\ Occurrences(style_summary'[st].all_colors, c) = 1
                    /\ style_summary'[st].color_count = Len(style_summary'[st].all_colors)
                    /\ Range(style_summary'[st].all_colors) =
                          SheetColorsOf(last'.sheet, st) \cup
                          (IF st \in DOMAIN style_summary
                           THEN Range(style_summary[st].all_colors) ELSE {})
                    /\ Cardinality({id \in DOMAIN items' :
                                      items'[id].style = st /\ items'[id].color = c}) = 1
          /\ DOMAIN style_summary' =
                DOMAIN style_summary \cup {PaddedDigitRun(r.style) : r \in Range(last'.sheet.rows)}
          /\ (last'.sheet = SheetWidths /\ style_summary = <<>>) =>
                /\ DOMAIN style_summary' = {<<"0", "1", "0", "0", "4", "5">>}
                /\ style_summary'[<<"0", "1", "0", "0", "4", "5">>].all_colors =
                      << <<"B", "L", "K">>, <<"B", "L", "K", " ", "(", "w", ")">> >>
                /\ style_summary'[<<"0", "1", "0", "0", "4", "5">>].color_count = 2
      ]_vars

\* C13 witness: the workbook with rows 10045/BLK and 10045w/BLK has been
\* ingested into an empty catalog: one StyleSummary, two Items.
C13_Witness ==
    /\ Uploaded
    /\ last.sheet = SheetWidths
    /\ Cardinality(DOMAIN style_summary) = 1
    /\ Cardinality(DOMAIN items) = 2
    /\ \E st \in DOMAIN style_summary : style_summary[st].color_count = 2

(***************************************************************************)
(* The Image-Row Matcher on its own: one call of extract_images_to_folder  *)
(* on a workbook with images anchored at any set of container rows.        *)
(***************************************************************************)

\* Highest container row an image is anchored at.
MaxAnchorRow == 6

RowPadded   == MkRow(<<" ", "1", "0", "0", "4", "5", "W", " ">>, <<" ", "R", "E", "D", " ">>,
                     "KIDS", "GRIP", "BOYS", None)
RowNoDigits == MkRow(<<"A", "B", "C">>, BLK, "KIDS", "GRIP", "BOYS", None)
RowNanColor == MkRow(Style104437, <<"n", "a", "n">>, "KIDS", "GRIP", "BOYS", None)
RowBlank    == MkRow(<<" ">>, RED, "KIDS", "GRIP", "BOYS", None)

\* Row 5 (data index 4) describes style 10045, color BLK.
FrameFive  == <<Row104437Blk, Row10045Red, Row10045wBlk, Row10045Red, Row10045Blk>>
FrameRagged == <<RowPadded, RowNoDigits, RowNanColor, RowBlank, Row10045wBlk, Row104437Blk>>
FrameShort == <<Row10045Blk, Row10045BlkRev>>
ImageFrames == {FrameFive, FrameRagged, FrameShort}

InitImages ==
    /\ items = <<>>
    /\ style_summary = <<>>
    /\ file_uploads = <<>>
    /\ inventory_actions = <<>>
    /\ images = {}
    /\ last = [op |-> "init", code |-> 0]
    /\ nreq = 0
    /\ sessions = <<>>

\* parser.extract_images_to_folder("static/images") on an empty folder.
ExtractImages ==
    /\ last.op = "init"
    /\ UNCHANGED sessions
    /\ \E df \in ImageFrames, anchors \in SUBSET (0..MaxAnchorRow) :
         \E write_fail \in {{}, anchors \cap {1, 5}} :
            LET sheet  == MkSheet(df, anchors)
                result == extract_images_to_folder(images, sheet, write_fail)
            IN  /\ images' = result.files
                /\ last' = [op |-> "extract_images", code |-> 200, sheet |-> sheet,
                            write_fail |-> write_fail,
                            extracted |-> result.extracted, skipped |-> result.skipped]
                /\ nreq' = nreq + 1
                /\ UNCHANGED <<items, style_summary, file_uploads, inventory_actions>>

NextImages == ExtractImages

SpecImages == InitImages /\ [][NextImages]_vars

\* A data row an image can be named from: style and color neither blank nor
\* nan, style starting with a digit.
Nameable(row) ==
    /\ Strip(row.style) \notin {<<>>, <<"n", "a", "n">>}
    /\ Strip(row.color) \notin {<<>>, <<"n", "a", "n">>}
    /\ LeadingDigits(Strip(row.style)) # <<>>

\* The artifact name of a data row: padded digit run, underscore, canonical
\* color, .jpg.
ArtifactName(row) ==
    PaddedDigitRun(Strip(row.style)) \o <<"_">>
      \o ColorWithVariant(Strip(row.color), extract_variant(Strip(row.style)))
      \o <<".", "j", "p", "g">>

\* C14: every image anchored at container row r within the data range is
\* written under the name of data row r-1 (the r-th data row) and of no other
\* row, whatever other images the workbook holds; an image anchored at row 5
\* over the data row 10045 / BLK is written as 010045_BLK.jpg.
C14_ImageNamedFromItsRow ==
    (last.op = "extract_images") =>
        LET df   == last.sheet.rows
            good == {r \in last.sheet.image_rows \ last.write_fail :
                        r >= 1 /\ r <= Len(df) /\ Nameable(df[r])}
        IN  /\ images = {ArtifactName(df[r]) : r \in good}
            /\ last.extracted = Cardinality(good)
            /\ last.skipped = Cardinality(last.sheet.image_rows) - Cardinality(good)
            /\ (df = FrameFive /\ 5 \in good) =>
                  <<"0", "1", "0", "0", "4", "5", "_", "B", "L", "K", ".", "j", "p", "g">>
                      \in images
            /\ (df = FrameFive /\ good = {5}) =>
                  images = {<<"0", "1", "0", "0", "4", "5", "_", "B", "L", "K", ".", "j", "p", "g">>}

\* C14 witness: images anchored at rows 4 and 5 of the five-row workbook were
\* written, each under the name of its own row.
C14_Witness ==
    /\ last.op = "extract_images"
    /\ last.sheet.rows = FrameFive
    /\ last.sheet.image_rows = {4, 5}
    /\ last.write_fail = {}
    /\ Cardinality(images) = 2

(***************************************************************************)
(* schemas.parse_width on its own                                          *)
(***************************************************************************)

\* s starts with prefix.
StartsWith(s, prefix) ==
    Len(prefix) <= Len(s) /\ SubSeq(s, 1, Len(prefix)) = prefix

\* sub in s
RECURSIVE Contains(_, _)
Contains(s, sub) ==
    IF Len(s) < Len(sub) THEN FALSE
    ELSE StartsWith(s, sub) \/ Contains(Tail(s), sub)

\* Faulty variant of parse_width: the tokens are looked for without lowering
\* the color first.
parse_width_case_sensitive(color) ==
    IF Contains(color, <<"(", "w", "w", ")">>) THEN "extra_wide"
    ELSE IF Contains(color, <<"(", "w", ")">>) THEN "wide"
    ELSE "regular"

parse_width(color) ==
    IF Contains(Lower(color), <<"(", "w", "w", ")">>) THEN "extra_wide"
    ELSE IF Contains(Lower(color), <<"(", "w", ")">>) THEN "wide"
    ELSE "regular"

\* Color strings are built from at most MaxPieces of these pieces.
MaxPieces == 3

ColorPieces ==
    { <<"B">>, <<" ">>, <<"(", "w", ")">>, <<"(", "w", "w", ")">>, <<"(", "W", ")">>,
      <<"(", "w", "W", ")">>, <<"(", "w">>, <<"W", ")">>, <<"(", "w", "w", "w", ")">> }

RECURSIVE ColorsOfPieces(_)
ColorsOfPieces(n) ==
    IF n = 0 THEN {<<>>}
    ELSE LET shorter == ColorsOfPieces(n - 1)
         IN  shorter \cup {c \o p : c \in shorter, p \in ColorPieces}

WidthColors == ColorsOfPieces(MaxPieces)

InitWidth ==
    /\ items = <<>>
    /\ style_summary = <<>>
    /\ file_uploads = <<>>
    /\ inventory_actions = <<>>
    /\ images = {}
    /\ last = [op |-> "init", code |-> 0]
    /\ nreq = 0
    /\ sessions = <<>>

ParseWidth ==
    /\ last.op = "init"
    /\ UNCHANGED sessions
    /\ \E color \in WidthColors :
          last' = [op |-> "parse_width", code |-> 200, color |-> color,
                   width |-> parse_width(color)]
    /\ nreq' = nreq + 1
    /\ UNCHANGED <<items, style_summary, file_uploads, inventory_actions, images>>

NextWidth == ParseWidth

SpecWidth == InitWidth /\ [][NextWidth]_vars

\* The color has, at some position, "(" then n letters w of either case
\* then ")".
HasWidthToken(color, n) ==
    \E i \in 1..(Len(color) - n - 1) :
        /\ color[i] = "("
        /\ \A k \in 1..n : color[i + k] \in {"w", "W"}
        /\ color[i + n + 1] = ")"

\* C15: parse_width gives extra_wide for a color that contains (ww), wide for
\* one that contains (w) and not (ww), and regular for any other, the letters
\* compared without regard to case.
C15_WidthClassification ==
    (last.op = "parse_width") =>
        /\ HasWidthToken(last.color, 2) => last.width = "extra_wide"
        /\ (HasWidthToken(last.color, 1) /\ ~HasWidthToken(last.color, 2))
              => last.width = "wide"
        /\ (~HasWidthToken(last.color, 1) /\ ~HasWidthToken(last.color, 2))
              => last.width = "regular"

\* C15 witness: a color with the upper-case token (W) and no (ww) was
\* classified wide.
C15_Witness ==
    /\ last.op = "parse_width"
    /\ last.color = <<"B", " ", "(", "W", ")">>
    /\ last.width = "wide"

\* C16: when file F, named in no provenance before, is ingested and then
\* retracted, the Items that exist, the provenance of each, and the
\* existence, provenance, color set and color_count of each StyleSummary are
\* what they were before F was ingested.
C16_RetractionReversesMerge ==
    [][ (/\ last.op = "upload_excel" /\ last.code = 200
         /\ ~InProvenance(last.filename, last.before)
         /\ last'.op = "delete_file" /\ last'.code = 200
         /\ last'.filename = last.filename
         /\ nreq' = nreq + 1) =>
          LET was == last.before
          IN  /\ DOMAIN items' = DOMAIN was.items
              /\ \A id \in DOMAIN was.items : Prov(items'[id]) = Prov(was.items[id])
              /\ DOMAIN style_summary' = DOMAIN was.style_summary
              /\ \A st \in DOMAIN was.style_summary :
                    /\ Prov(style_summary'[st]) = Prov(was.style_summary[st])
                    /\ Range(style_summary'[st].all_colors)
                          = Range(was.style_summary[st].all_colors)
                    /\ style_summary'[st].color_count = was.style_summary[st].color_count
      ]_vars

\* C16 witness: a file was ingested over a catalog that did not name it and
\* then retracted; the retraction deleted the Items and the StyleSummary the
\* file had added and struck it from Items and a StyleSummary it had merged into.
C16_Witness ==
    /\ Retracted
    /\ last.round_trip
    /\ last.items_deleted > 0
    /\ last.items_updated > 0
    /\ last.styles_deleted > 0
    /\ last.styles_updated > 0

(***************************************************************************)
(* Concurrent merges: two save_to_database calls, each in the session      *)
(* get_session() gives it, over a catalog that a third file has filled.    *)
(* A session holds the rows it has loaded or created, as it has changed    *)
(* them; its queries return those rows, and the committed row otherwise.   *)
(* Nothing is locked or versioned: commit writes the session's rows over   *)
(* the committed ones. An insert of a row whose key was committed by the   *)
(* other session in the meantime fails (primary key) and the session is    *)
(* rolled back.                                                            *)
(***************************************************************************)

FileG == <<"g", ".", "x", "l", "s", "x">>

Procs == {"p1", "p2"}
ProcFile(p) == IF p = "p1" THEN FileA ELSE FileB

MergeSheets == {sh \in Sheets : sh.has_required}

EmptyCatalog == [items |-> <<>>, style_summary |-> <<>>]

\* session = get_session() at line 253, before the loop.
OpenSession(filename, df) ==
    [ filename |-> filename, steps |-> MergeSteps(df), n |-> 0, pc |-> "merging",
      items |-> <<>>, style_summary |-> <<>>,
      created_items |-> {}, created_styles |-> {},
      seen |-> <<>> ]

\* What the session's queries return: its own rows, else the committed ones.
SessionView(s) ==
    [items |-> s.items @@ items, style_summary |-> s.style_summary @@ style_summary]

StepStyle(step) == zfill(step.style_data.style, PadWidth)
StepItemId(step) == ItemId(StepStyle(step), RowColor(step.row))

\* One write of the loop (lines 282-339) in session s; seen records, for each
\* Item the session loads, how many merges had committed when it was read.
SessionAfterStep(s, commits) ==
    LET step  == s.steps[s.n + 1]
        view  == SessionView(s)
        after == ApplyStep(view, s.filename, step)
    IN  IF step.kind = "item"
        THEN LET id == StepItemId(step)
             IN  [s EXCEPT !.n = @ + 1,
                           !.items = (id :> after.items[id]) @@ @,
                           !.created_items =
                               IF id \in DOMAIN view.items THEN @ ELSE @ \cup {id},
                           !.seen = IF id \in DOMAIN @ THEN @ ELSE (id :> commits) @@ @]
        ELSE LET st == StepStyle(step)
             IN  [s EXCEPT !.n = @ + 1,
                           !.style_summary = (st :> after.style_summary[st]) @@ @,
                           !.created_styles =
                               IF st \in DOMAIN view.style_summary THEN @ ELSE @ \cup {st}]

\* Faulty variant of CommitRows: a committed Item changed meanwhile keeps the
\* files it has gained.
CommitRowsMerging(committed, written) ==
    [id \in DOMAIN committed \cup DOMAIN written |->
        IF id \in DOMAIN written
        THEN IF id \in DOMAIN committed
             THEN [written[id] EXCEPT !.source_files =
                        SortedStrs(Range(@) \cup Range(committed[id].source_files))]
             ELSE written[id]
        ELSE committed[id]]

\* session.commit() (line 343): the session's rows replace the committed ones.
CommitRows(committed, written) == written @@ committed

InitConcurrent ==
    \E base \in MergeSheets, sh1 \in MergeSheets, sh2 \in MergeSheets :
        LET db == save_to_database(EmptyCatalog, FileG, base.rows, NoFault).db
        IN  /\ items = db.items
            /\ style_summary = db.style_summary
            /\ file_uploads = <<>>
            /\ inventory_actions = <<>>
            /\ images = {}
            /\ sessions = [p \in Procs |->
                             OpenSession(ProcFile(p), IF p = "p1" THEN sh1.rows ELSE sh2.rows)]
            /\ last = [op |-> "concurrent", code |-> 0, before |-> db, commits |-> <<>>]
            /\ nreq = 0

MergeWrite ==
    \E p \in Procs :
        /\ sessions[p].pc = "merging"
        /\ sessions[p].n < Len(sessions[p].steps)
        /\ sessions' = [sessions EXCEPT ![p] = SessionAfterStep(@, Len(last.commits))]
        /\ UNCHANGED <<items, style_summary, file_uploads, inventory_actions, images,
                       last, nreq>>

MergeCommit ==
    \E p \in Procs :
        LET s == sessions[p]
        IN  /\ s.pc = "merging"
            /\ s.n = Len(s.steps)
            /\ IF \/ s.created_items \cap DOMAIN items # {}
                  \/ s.created_styles \cap DOMAIN style_summary # {}
               THEN /\ sessions' = [sessions EXCEPT ![p].pc = "failed"]
                    /\ UNCHANGED <<items, style_summary, last>>
               ELSE /\ items' = CommitRows(items, s.items)
                    /\ style_summary' = CommitRows(style_summary, s.style_summary)
                    /\ sessions' = [sessions EXCEPT ![p].pc = "committed"]
                    /\ last' = [last EXCEPT !.commits = Append(@, p)]
            /\ UNCHANGED <<file_uploads, inventory_actions, images, nreq>>

NextConcurrent == MergeWrite \/ MergeCommit

SpecConcurrent == InitConcurrent /\ [][NextConcurrent]_vars

\* The Items that existed before both merges and that both merges name.
SharedItems ==
    DOMAIN last.before.items \cap DOMAIN sessions["p1"].items
                             \cap DOMAIN sessions["p2"].items

\* C17: ingestions take no lock. When two merges that name the same existing
\* Item have both committed, the Item lists the file of the one that committed
\* last, and it lists the other file only if the last committer read the Item
\* after the other had committed (the sequential case); when it read the Item
\* before, the other file is lost.
C17_LastCommitWins ==
    (last.op = "concurrent" /\ Len(last.commits) = 2) =>
        LET w == last.commits[2]
            o == last.commits[1]
        IN  \A id \in SharedItems :
              /\ Prov(last.before.items[id]) \subseteq Prov(items[id])
              /\ sessions[w].filename \in Prov(items[id])
              /\ (sessions[o].filename \in Prov(items[id])) <=> (sessions[w].seen[id] >= 1)

\* C17 witness: both merges have committed and an Item both name lists only
\* the file of the merge that committed last.
C17_Witness ==
    /\ last.op = "concurrent"
    /\ Len(last.commits) = 2
    /\ \E id \in SharedItems :
          Prov(items[id]) = {FileG, sessions[last.commits[2]].filename}

(***************************************************************************)
(* The Row Normalizer through the merge: one workbook of one row, merged   *)
(* into an empty catalog.                                                  *)
(***************************************************************************)

\* Longest raw style token drawn from TokenChars.
MaxTokenLen == 4

TokenChars == {"1", "0", "w", "W", "A", "-"}

RECURSIVE TokensUpTo(_)
TokensUpTo(n) ==
    IF n = 0 THEN {<<>>}
    ELSE LET shorter == TokensUpTo(n - 1)
         IN  shorter \cup {Append(t, c) : t \in shorter, c \in TokenChars}

LongTokens ==
    { Style10045w, Style104437,
      <<"1", "2", "3", "4", "5", "6", "7">>,
      <<"1", "2", "3", "4", "5", "6", "7", "W", "w">>,
      <<"+", "1", "2", "w">>, <<"n", "a", "n">> }

\* str(cell) of a style cell is never empty: an empty cell reads as nan.
StyleTokens == (TokensUpTo(MaxTokenLen) \ {<<>>}) \cup LongTokens

InitNormalize ==
    /\ items = <<>>
    /\ style_summary = <<>>
    /\ file_uploads = <<>>
    /\ inventory_actions = <<>>
    /\ images = {}
    /\ last = [op |-> "init", code |-> 0]
    /\ nreq = 0
    /\ sessions = <<>>

\* save_to_database of a workbook with the single row (token, color).
NormalizeRow ==
    /\ last.op = "init"
    /\ \E token \in StyleTokens, color \in {BLK, RED} :
          LET df     == <<MkRow(token, color, "SPORT", "FLEX", "MENS", None)>>
              result == save_to_database(Catalog, FileA, df, NoFault)
          IN  /\ items' = result.db.items
              /\ style_summary' = result.db.style_summary
              /\ last' = [op |-> "normalize", code |-> 200, token |-> token,
                          color |-> color]
    /\ nreq' = nreq + 1
    /\ UNCHANGED <<file_uploads, inventory_actions, images, sessions>>

NextNormalize == NormalizeRow

SpecNormalize == InitNormalize /\ [][NextNormalize]_vars

\* The leading run of digits of a token that starts with a digit.
DigitRun(token) ==
    LET n == CHOOSE k \in 1..Len(token) :
                /\ \A i \in 1..k : token[i] \in Digits
                /\ (k = Len(token) \/ token[k + 1] \notin Digits)
    IN  SubSeq(token, 1, n)

\* Base style as the claim states it.
ClaimedBase(token) == IF token[1] \in Digits THEN DigitRun(token) ELSE token

\* s with zeros put in front of it up to 6 characters.
LeftPadded(s) ==
    IF Len(s) >= 6 THEN s ELSE [i \in 1..(6 - Len(s)) |-> "0"] \o s

\* s padded as str.zfill pads: the zeros go after a leading + or - sign.
SignPadded(s) ==
    IF Len(s) < 6 /\ s[1] \in {"+", "-"}
    THEN <<s[1]>> \o [i \in 1..(6 - Len(s)) |-> "0"] \o Tail(s)
    ELSE LeftPadded(s)

EndsInW(token)  == token[Len(token)] \in {"w", "W"}
EndsInWW(token) == Len(token) >= 2 /\ EndsInW(token) /\ token[Len(token) - 1] \in {"w", "W"}

\* Canonical color as the claim states it.
ClaimedColor(token, color) ==
    IF EndsInWW(token) THEN color \o <<" ", "(", "w", "w", ")">>
    ELSE IF EndsInW(token) THEN color \o <<" ", "(", "w", ")">>
    ELSE color

\* The one Item of the store has the given style and color and the id
\* style_color.
OnlyItemIs(style, color) ==
    LET id == style \o <<"_">> \o color
    IN  /\ DOMAIN items = {id}
        /\ items[id].id = id
        /\ items[id].style = style
        /\ items[id].color = color

\* C18 as stated: the Item of a raw row (token, color) has the base style
\* (leading digit run, or the whole token if it has no leading digit) padded
\* with zeros on the left to 6 characters, the canonical color (color plus
\* (ww) or (w) by the token's ending, without regard to case), and the id
\* style_color.
C18_CanonicalIdLeftPadded ==
    (last.op = "normalize") =>
        OnlyItemIs(LeftPadded(ClaimedBase(last.token)),
                   ClaimedColor(last.token, last.color))

\* C18 amended: as stated, except that a base style that begins with + or -
\* is padded after that sign, as str.zfill pads.
C18_CanonicalId ==
    (last.op = "normalize") =>
        OnlyItemIs(SignPadded(ClaimedBase(last.token)),
                   ClaimedColor(last.token, last.color))

\* C18 witness: the row (10Ww, BLK) was merged as Item 000010_BLK (ww).
C18_Witness ==
    /\ last.op = "normalize"
    /\ last.token = <<"1", "0", "W", "w">>
    /\ last.color = BLK
    /\ DOMAIN items = {<<"0", "0", "0", "0", "1", "0", "_",
                         "B", "L", "K", " ", "(", "w", "w", ")">>}

(***************************************************************************)
(* Grouping and duplicate rows: one workbook of a few rows, some of them   *)
(* with the same style and color, merged into an empty catalog.            *)
(***************************************************************************)

\* Most rows of such a workbook.
MaxRows == 3

Style010045 == <<"0", "1", "0", "0", "4", "5">>

DupRows ==
    { MkRow(Style10045,  BLK, "SPORT", "FLEX", "MENS", None),
      MkRow(Style10045,  BLK, "KIDS",  "GRIP", "BOYS", "blk.png"),
      MkRow(Style10045w, BLK, "GOLF",  "GRIP", "BOYS", None),
      MkRow(Style010045, BLK, "GOLF",  "FLEX", "MENS", None),
      MkRow(Style10045,  RED, "KIDS",  "GRIP", "BOYS", None) }

RECURSIVE FramesUpTo(_)
FramesUpTo(n) ==
    IF n = 0 THEN {<<>>}
    ELSE LET shorter == FramesUpTo(n - 1)
         IN  shorter \cup {Append(df, r) : df \in shorter, r \in DupRows}

DupFrames == FramesUpTo(MaxRows) \ {<<>>}

InitGroups ==
    /\ items = <<>>
    /\ style_summary = <<>>
    /\ file_uploads = <<>>
    /\ inventory_actions = <<>>
    /\ images = {}
    /\ last = [op |-> "init", code |-> 0]
    /\ nreq = 0
    /\ sessions = <<>>

\* InventoryParser(path) and save_to_database(filename) of one workbook.
MergeWorkbook ==
    /\ last.op = "init"
    /\ \E df \in DupFrames :
          LET result == save_to_database(Catalog, FileA, df, NoFault)
          IN  /\ items' = result.db.items
              /\ style_summary' = result.db.style_summary
              /\ last' = [op |-> "merge_workbook", code |-> 200, df |-> df,
                          styles_data |-> process_styles(df),
                          items_saved |-> result.items_saved]
    /\ nreq' = nreq + 1
    /\ UNCHANGED <<file_uploads, inventory_actions, images, sessions>>

NextGroups == MergeWorkbook

SpecGroups == InitGroups /\ [][NextGroups]_vars

\* Positions of the rows of df that belong to base-style group g.
GroupRowsAt(df, g) == {i \in 1..Len(df) : ClaimedBase(df[i].style) = g}

\* Position of the first row of group g with canonical color c.
FirstAt(df, g, c) ==
    CHOOSE i \in GroupRowsAt(df, g) :
        /\ ClaimedColor(df[i].style, df[i].color) = c
        /\ \A j \in GroupRowsAt(df, g) :
              ClaimedColor(df[j].style, df[j].color) = c => i <= j

\* Canonical id of the row at position i.
CanonicalIdAt(df, i) ==
    SignPadded(ClaimedBase(df[i].style)) \o <<"_">>
        \o ClaimedColor(df[i].style, df[i].color)

\* The color list of every base-style group holds each canonical color of
\* the group's rows once, in the order of first occurrence.
ColorListsFirstSeen ==
    \A k \in 1..Len(last.styles_data) :
        LET g    == last.styles_data[k].style
            list == last.styles_data[k].colors
        IN  /\ Range(list) =
                  {ClaimedColor(last.df[i].style, last.df[i].color) :
                      i \in GroupRowsAt(last.df, g)}
            /\ \A a, b \in 1..Len(list) :
                  a < b => /\ list[a] # list[b]
                           /\ FirstAt(last.df, g, list[a]) < FirstAt(last.df, g, list[b])

\* The descriptive fields and image reference of Item id are those of row i.
WrittenFrom(id, i) ==
    /\ id \in DOMAIN items
    /\ items[id].division = last.df[i].division
    /\ items[id].outsole = last.df[i].outsole
    /\ items[id].gender = last.df[i].gender

\* C19 as stated: the color lists are first-seen lists, and for rows of the
\* workbook that share a canonical id the Item is written from the first
\* such row only and counted once in items_saved.
C19_FirstRowOfEachId ==
    (last.op = "merge_workbook") =>
        /\ ColorListsFirstSeen
        /\ \A i \in 1..Len(last.df) :
              (\A j \in 1..(i - 1) : CanonicalIdAt(last.df, j) # CanonicalIdAt(last.df, i))
                  => WrittenFrom(CanonicalIdAt(last.df, i), i)
        /\ last.items_saved =
              Cardinality({CanonicalIdAt(last.df, i) : i \in 1..Len(last.df)})

\* C19 amended: the color lists are first-seen lists, and within one
\* base-style group the Item of a canonical color is written from the
\* group's first row of that color only and counted once; groups with
\* different base styles that pad to the same 6-digit style (10045 and
\* 010045) each write the Item, in the order of their base styles, and each
\* count it, so the Item keeps the fields written by the last such group.
C19_FirstRowOfEachGroup ==
    (last.op = "merge_workbook") =>
        /\ ColorListsFirstSeen
        /\ \A k \in 1..Len(last.styles_data) :
              LET g == last.styles_data[k].style
              IN  \A c \in Range(last.styles_data[k].colors) :
                    LET i == FirstAt(last.df, g, c)
                        later == {m \in (k + 1)..Len(last.styles_data) :
                                    /\ SignPadded(last.styles_data[m].style) = SignPadded(g)
                                    /\ c \in Range(last.styles_data[m].colors)}
                    IN  later = {} => WrittenFrom(CanonicalIdAt(last.df, i), i)
        /\ last.items_saved =
              Cardinality({<<ClaimedBase(last.df[i].style), CanonicalIdAt(last.df, i)>> :
                              i \in 1..Len(last.df)})

\* C19 witness: a workbook whose first two rows are 10045 / BLK with
\* different descriptive fields was merged; the Item has the fields of the
\* first row and was counted once.
C19_Witness ==
    /\ last.op = "merge_workbook"
    /\ Len(last.df) = 3
    /\ CanonicalIdAt(last.df, 1) = CanonicalIdAt(last.df, 2)
    /\ last.df[1].division # last.df[2].division
    /\ last.df[3].color = RED
    /\ last.items_saved = 2
    /\ WrittenFrom(CanonicalIdAt(last.df, 1), 1)

\* C20: when an upload names an Item that exists, the Item's division,
\* outsole and gender become those of the upload's row, its image reference
\* becomes the row's if the row has one and stays as it was otherwise, and
\* its status and location stay as they were.
C20_ExistingItemOverwritten ==
    [][ (last'.op = "upload_excel" /\ last'.code = 200 /\ nreq' = nreq + 1) =>
          \A i \in 1..Len(last'.sheet.rows) :
              LET row == last'.sheet.rows[i]
                  id  == CanonicalIdAt(last'.sheet.rows, i)
              IN  id \in DOMAIN items =>
                    /\ id \in DOMAIN items'
                    /\ items'[id].division = row.division
                    /\ items'[id].outsole = row.outsole
                    /\ items'[id].gender = row.gender
                    /\ items'[id].image_url =
                          (IF row.image # None THEN row.image ELSE items[id].image_url)
                    /\ items'[id].status = items[id].status
                    /\ items'[id].row_id = items[id].row_id
      ]_vars

\* C20 witness: an Item that had an image reference, a location and the
\* status placed was named again by a row with other descriptive fields and
\* no image: it has the row's fields and still its image, location and status.
C20_Witness ==
    /\ Uploaded
    /\ \E i \in 1..Len(last.sheet.rows) :
          LET row == last.sheet.rows[i]
              id  == CanonicalIdAt(last.sheet.rows, i)
          IN  /\ id \in DOMAIN items
              /\ row.image = None
              /\ items[id].image_url # None
              /\ items[id].division = row.division
              /\ items[id].status = "placed"
              /\ items[id].row_id # None

\* C21: a successful ingestion of file F creates, for every canonical id of
\* its rows that the catalog did not hold, an Item whose provenance is exactly
\* {F} and whose status is pending; the Items and StyleSummaries of styles
\* that do not occur in the workbook are left as they were.
C21_NewItemFromThisFileOnly ==
    [][ (last'.op = "upload_excel" /\ last'.code = 200 /\ nreq' = nreq + 1) =>
          LET f      == last'.filename
              styles == {PaddedDigitRun(r.style) : r \in Range(last'.sheet.rows)}
          IN  /\ \A id \in SheetItemIds(last'.sheet) \ DOMAIN items :
                    /\ id \in DOMAIN items'
                    /\ items'[id].source_files = <<f>>
                    /\ items'[id].status = "pending"
              /\ \A id \in DOMAIN items :
                    items[id].style \notin styles =>
                        id \in DOMAIN items' /\ items'[id] = items[id]
              /\ \A st \in DOMAIN style_summary :
                    style_summary[st].style \notin styles =>
                        st \in DOMAIN style_summary' /\ style_summary'[st] = style_summary[st]
              /\ \A id \in DOMAIN items' \ DOMAIN items : items'[id].style \in styles
      ]_vars

\* C21 witness: an ingestion created an Item over a catalog that held an Item
\* of a style the workbook does not have, whose status was no longer pending.
C21_Witness ==
    /\ Uploaded
    /\ \E id \in SheetItemIds(last.sheet) \ DOMAIN last.before.items :
          id \in DOMAIN items /\ items[id].source_files = <<last.filename>>
    /\ \E id \in DOMAIN last.before.items :
          /\ items[id].style \notin {PaddedDigitRun(r.style) : r \in Range(last.sheet.rows)}
          /\ items[id].status # "pending"

\* C22: after a successful ingestion, the division, outsole and gender of the
\* StyleSummary of every style of the workbook are those of a row of that
\* style in the workbook just ingested (the most recent contribution), also
\* when the StyleSummary existed before with other values.
C22_SummaryFieldsFromLatestRows ==
    [][ (last'.op = "upload_excel" /\ last'.code = 200 /\ nreq' = nreq + 1) =>
          \A r \in Range(last'.sheet.rows) :
              LET st == PaddedDigitRun(r.style)
              IN  /\ st \in DOMAIN style_summary'
                  /\ \E x \in Range(last'.sheet.rows) :
                        /\ PaddedDigitRun(x.style) = st
                        /\ style_summary'[st].division = x.division
                        /\ style_summary'[st].outsole = x.outsole
                        /\ style_summary'[st].gender = x.gender
      ]_vars

(***************************************************************************)
(* The Image-Row Matcher over the embedded images themselves: the list     *)
(* sheet._images, each image with or without an anchor, readable or not,   *)
(* several of them possibly anchored at one row.                           *)
(***************************************************************************)

\* Most embedded images of a workbook.
MaxImages == 3

\* An embedded image: whether it has an anchor, the container row of the
\* anchor, and whether its data can be read and re-encoded.
EmbeddedImages ==
    {[anchored |-> TRUE, row |-> r, readable |-> b] : r \in 0..MaxAnchorRow, b \in BOOLEAN}
        \cup {[anchored |-> FALSE, row |-> 0, readable |-> TRUE]}

RECURSIVE ImageListsUpTo(_)
ImageListsUpTo(n) ==
    IF n = 0 THEN {<<>>}
    ELSE LET shorter == ImageListsUpTo(n - 1)
         IN  shorter \cup {Append(l, img) : l \in shorter, img \in EmbeddedImages}

\* Faulty variant of ImagesByRow: a later image anchored at a row replaces the
\* earlier one.
ImagesByRowKeepsLast(imgs) ==
    LET anchored == {i \in 1..Len(imgs) : imgs[i].anchored}
    IN  [r \in {imgs[i].row : i \in anchored} |->
            << CHOOSE i \in anchored :
                 /\ imgs[i].row = r
                 /\ \A j \in anchored : imgs[j].row = r => j <= i >>]

\* Lines 152-159: images_by_row, anchor row -> the positions in sheet._images
\* of the images anchored there, in list order.
ImagesByRow(imgs) ==
    LET anchored == {i \in 1..Len(imgs) : imgs[i].anchored}
    IN  [r \in {imgs[i].row : i \in anchored} |->
            SelectSeq([i \in 1..Len(imgs) |-> i],
                      LAMBDA i : imgs[i].anchored /\ imgs[i].row = r)]

\* Lines 202-225: the rows whose first image cannot be read or written.
UnreadableRows(imgs, by_row) ==
    {r \in DOMAIN by_row : ~imgs[by_row[r][1]].readable}

\* The image each written file holds: the rows are processed in ascending
\* order and a later file of the same name replaces the earlier one.
ArtifactSources(df, imgs, by_row) ==
    LET wrote == {r \in DOMAIN by_row \ UnreadableRows(imgs, by_row) :
                    ImageFileName(df, r) # <<>>}
    IN  [name \in {ImageFileName(df, r) : r \in wrote} |->
            LET r == CHOOSE x \in wrote :
                        /\ ImageFileName(df, x) = name
                        /\ \A y \in wrote : ImageFileName(df, y) = name => y <= x
            IN  by_row[r][1]]

InitAnchored ==
    /\ items = <<>>
    /\ style_summary = <<>>
    /\ file_uploads = <<>>
    /\ inventory_actions = <<>>
    /\ images = {}
    /\ last = [op |-> "init", code |-> 0]
    /\ nreq = 0
    /\ sessions = <<>>

\* parser.extract_images_to_folder("static/images") on an empty folder, for
\* a workbook whose sheet holds the images imgs.
ExtractAnchored ==
    /\ last.op = "init"
    /\ \E df \in ImageFrames, imgs \in ImageListsUpTo(MaxImages) :
          LET by_row == ImagesByRow(imgs)
              sheet  == MkSheet(df, DOMAIN by_row)
              result == extract_images_to_folder(images, sheet, UnreadableRows(imgs, by_row))
          IN  /\ images' = result.files
              /\ last' = [op |-> "extract_anchored", code |-> 200, df |-> df, imgs |-> imgs,
                          extracted |-> result.extracted, skipped |-> result.skipped,
                          sources |-> ArtifactSources(df, imgs, by_row)]
    /\ nreq' = nreq + 1
    /\ UNCHANGED <<items, style_summary, file_uploads, inventory_actions, sessions>>

NextAnchored == ExtractAnchored

SpecAnchored == InitAnchored /\ [][NextAnchored]_vars

\* The distinct anchor rows of the images of the last extraction.
AnchorRows == {last.imgs[i].row : i \in {j \in 1..Len(last.imgs) : last.imgs[j].anchored}}

\* Position of the first image anchored at row r.
FirstImageAt(r) ==
    CHOOSE i \in 1..Len(last.imgs) :
        /\ last.imgs[i].anchored /\ last.imgs[i].row = r
        /\ \A j \in 1..(i - 1) : ~(last.imgs[j].anchored /\ last.imgs[j].row = r)

\* Anchor row r is skipped: out of the data range, blank or nan style or
\* color, style without leading digits, or first image unreadable.
SkippedRow(r) ==
    \/ r < 1 \/ r > Len(last.df)
    \/ ~Nameable(last.df[r])
    \/ ~last.imgs[FirstImageAt(r)].readable

\* C23: every distinct anchor row is either extracted, one file written from
\* the first image anchored there, or skipped (out of range, blank style or
\* color, style without leading digits, image error); rows after a skipped
\* row are still processed; extracted + skipped is the number of distinct
\* anchor rows.
C23_AnchorRowsAccounted ==
    (last.op = "extract_anchored") =>
        LET done == {r \in AnchorRows : ~SkippedRow(r)}
        IN  /\ last.extracted = Cardinality(done)
            /\ last.skipped = Cardinality(AnchorRows \ done)
            /\ last.extracted + last.skipped = Cardinality(AnchorRows)
            /\ images = {ArtifactName(last.df[r]) : r \in done}
            /\ DOMAIN last.sources = images
            /\ \A r \in done :
                  last.sources[ArtifactName(last.df[r])] \in
                      {FirstImageAt(x) : x \in {y \in done :
                            ArtifactName(last.df[y]) = ArtifactName(last.df[r])}}

\* C23 witness: three images, two of them anchored at row 5 and one at a row
\* without data; row 0 was skipped and the file of row 5 holds the first of
\* its two images.
C23_Witness ==
    /\ last.op = "extract_anchored"
    /\ last.df = FrameFive
    /\ Len(last.imgs) = 3
    /\ last.imgs[1].anchored /\ last.imgs[1].row = 0
    /\ last.imgs[2].anchored /\ last.imgs[2].row = 5
    /\ last.imgs[3].anchored /\ last.imgs[3].row = 5 /\ ~last.imgs[3].readable
    /\ last.extracted = 1
    /\ last.skipped = 1
    /\ \E name \in images : last.sources[name] = 2

(***************************************************************************)
(* Uploads of workbooks that hold images: some images fail to be written,  *)
(* the workbook cannot be loaded for its images, the store fails during    *)
(* the merge.                                                              *)
(***************************************************************************)

\* Number of uploads in a run.
MaxUploads == 2

\* Two styles with an image on either row; a second workbook with an image
\* on the header row as well; a workbook openpyxl cannot load.
SheetPictures  == MkSheet(<<Row10045Blk, Row104437Blk>>, {1, 2})
SheetPictures2 == MkSheet(<<Row10045Red, Row10045wBlk>>, {0, 1, 2})
SheetUnloadable == [SheetPictures EXCEPT !.loadable = FALSE]

\* A workbook whose first row has blanks around its style and color cells.
SheetPadded == MkSheet(<<RowPadded, Row10045Blk>>, {1, 2})

IngestSheets == {SheetPictures, SheetPictures2, SheetUnloadable, SheetPadded}

InitIngest ==
    /\ items = <<>>
    /\ style_summary = <<>>
    /\ file_uploads = <<>>
    /\ inventory_actions = <<>>
    /\ images = {}
    /\ last = [op |-> "init", code |-> 0]
    /\ nreq = 0
    /\ sessions = <<>>

\* POST /upload-excel?upload_images=...
UploadWithImages ==
    /\ nreq < MaxUploads
    /\ UNCHANGED sessions
    /\ \E f \in Files, sh \in IngestSheets, upload_images \in BOOLEAN :
          \E write_fail \in SUBSET sh.image_rows :
              \E fault \in {NoFault} \cup MergeFaults(sh.rows) :
                  upload_excel(f, sh, upload_images, write_fail, fault)

NextIngest == UploadWithImages

SpecIngest == InitIngest /\ [][NextIngest]_vars

\* The files an extraction of the sheet writes when the images at the rows
\* bad fail: one per anchored data row that can be named.
ArtifactsOf(sheet, bad) ==
    {ArtifactName(sheet.rows[r]) :
        r \in {x \in sheet.image_rows \ bad :
                  x >= 1 /\ x <= Len(sheet.rows) /\ Nameable(sheet.rows[x])}}

C25_RetractedFileGone ==
    [][ (last'.op = "delete_file" /\ last'.code = 200 /\ nreq' = nreq + 1) =>
          LET f == last'.filename
          IN  /\ \A id \in DOMAIN items' : f \notin Prov(items'[id])
              /\ \A st \in DOMAIN style_summary' : f \notin Prov(style_summary'[st])
              /\ \A i \in 1..Len(inventory_actions') : inventory_actions'[i].source_file # f
              /\ f \notin DOMAIN file_uploads'
              /\ last'.items_deleted + last'.items_updated =
                    Cardinality({id \in DOMAIN items : f \in Prov(items[id])})
              /\ last'.actions_deleted =
                    Cardinality({i \in 1..Len(inventory_actions) :
                                    inventory_actions[i].source_file = f})
      ]_vars

\* C25 witness: a retraction deleted an Item, struck the file from another
\* and deleted an action tagged with the file.
C25_Witness ==
    /\ Retracted
    /\ last.items_deleted > 0
    /\ last.items_updated > 0
    /\ last.actions_deleted > 0

\* The five lifecycle statuses, as the claim lists them.
Lifecycle == {"pending", "placed", "showroom", "waitlist", "dropped"}

C27_SummaryIffItems ==
    /\ \A st \in DOMAIN style_summary :
          /\ style_summary[st].style = st
          /\ ItemsOfStyle(items, st) # {}
          /\ Prov(style_summary[st]) =
                UNION {Prov(items[id]) : id \in ItemsOfStyle(items, st)}
    /\ \A id \in DOMAIN items : items[id].style \in DOMAIN style_summary

\* C27 witness: a retraction deleted one StyleSummary with its Items and
\* struck the file from another, whose Items it partly deleted and partly kept.
C27_Witness ==
    /\ Retracted
    /\ last.styles_deleted > 0
    /\ last.styles_updated > 0
    /\ last.items_updated > 0
    /\ \E st \in DOMAIN style_summary :
          Prov(style_summary[st]) = UNION {Prov(items[id]) : id \in ItemsOfStyle(items, st)}

\* C28: for every row of an uploaded workbook whose image was written, the
\* file is named by the id the merge gave the Item of that row, followed by
\* .jpg, so that get_image_url_for_item finds it from the Item's style and
\* color; this also for rows with blanks around the style or color cell.
C28_ArtifactNamedAsItemId ==
    [][ (/\ last'.op = "upload_excel" /\ last'.code = 200 /\ nreq' = nreq + 1
         /\ last'.upload_images /\ last'.sheet.loadable) =>
          LET sh == last'.sheet
          IN  \A r \in sh.image_rows \ last'.write_fail :
                  (r >= 1 /\ r <= Len(sh.rows) /\ Nameable(sh.rows[r])) =>
                      LET id == ItemId(zfill(extract_base_style(sh.rows[r].style), PadWidth),
                                       RowColor(sh.rows[r]))
                      IN  /\ id \in DOMAIN items'
                          /\ id \o <<".", "j", "p", "g">> \in images'
                          /\ get_image_url_for_item(items'[id].style, items'[id].color,
                                                    images') # <<>>
      ]_vars

\* The Items a request to record an action is about: style (a 5-character
\* style zero-padded to 6) and color as given.
RequestedItems(req, its) ==
    {id \in DOMAIN its :
        /\ its[id].style = (IF Len(req.style) = 5 THEN LeftPadded(req.style) ELSE req.style)
        /\ its[id].color = req.color}

\* C29: after every request, every recorded action refers to an Item that
\* exists and is tagged with a file of that Item's provenance. A request to
\* record an action for an Item that does not exist, or with a source_file
\* that the Item does not list, is answered with an error and changes
\* nothing; a retraction leaves no action of an Item it deletes.
C29_ActionsReferToItems ==
    [][ /\ \A i \in 1..Len(inventory_actions') :
              LET a == inventory_actions'[i]
              IN  /\ a.item_id \in DOMAIN items'
                  /\ a.source_file \in Prov(items'[a.item_id])
        /\ (last'.op = "record_action" /\ nreq' = nreq + 1) =>
              LET req == last'.req
                  its == RequestedItems(req, items)
              IN  /\ (\/ its = {}
                      \/ (req.source_file # <<>>
                          /\ \A id \in its : req.source_file \notin Prov(items[id])))
                        => /\ last'.code \in {400, 404, 422}
                           /\ items' = items
                           /\ inventory_actions' = inventory_actions
                           /\ style_summary' = style_summary
                           /\ file_uploads' = file_uploads
                  /\ (last'.code = 200) =>
                        /\ Len(inventory_actions') = Len(inventory_actions) + 1
                        /\ inventory_actions'[Len(inventory_actions')].item_id \in its
        /\ (last'.op = "delete_file" /\ last'.code = 200 /\ nreq' = nreq + 1) =>
              \A i \in 1..Len(inventory_actions) :
                  inventory_actions[i].item_id \notin DOMAIN items' =>
                      inventory_actions[i].source_file = last'.filename
      ]_vars

\* C29 witness: a retraction deleted two Items and the action recorded for
\* each of them.
C29_Witness ==
    /\ Retracted
    /\ last.items_deleted >= 2
    /\ last.actions_deleted >= 2
    /\ inventory_actions = <<>>

(***************************************************************************)
(* GET /inventory/search?width=... over a catalog that one upload filled.  *)
(***************************************************************************)

\* Most rows of the workbook the catalog is filled from.
MaxSearchRows == 2

SearchTokens ==
    { Style10045, Style10045w, <<"1", "0", "0", "4", "5", "w", "w">>,
      <<"1", "0", "0", "4", "5", "W">> }

SearchColors ==
    { BLK, RED, <<"B", "(", "W", ")">>, <<"R", "(", "w", "w", ")", "(", "w", ")">> }

SearchRows ==
    {MkRow(t, c, "SPORT", "FLEX", "MENS", None) : t \in SearchTokens, c \in SearchColors}

RECURSIVE SearchFramesUpTo(_)
SearchFramesUpTo(n) ==
    IF n = 0 THEN {<<>>}
    ELSE LET shorter == SearchFramesUpTo(n - 1)
         IN  shorter \cup {Append(df, r) : df \in shorter, r \in SearchRows}

\* column LIKE '%sub%' as SQLite, the default store, evaluates it: ASCII
\* letters match without regard to case.
Like(s, sub) == Contains(Lower(s), Lower(sub))

\* Lines 663-669: the filter a width value adds to the query.
WidthFilter(width, color) ==
    CASE width = "wide"       -> Like(color, <<"(", "w", ")">>)
                                 /\ ~Like(color, <<"(", "w", "w", ")">>)
      [] width = "extra_wide" -> Like(color, <<"(", "w", "w", ")">>)
      [] width = "regular"    -> ~Like(color, <<"(", "w", ")">>)
      [] OTHER                -> TRUE

\* search_inventory(width=width): the ids of the Items the query counts.
search_inventory(its, width) ==
    {id \in DOMAIN its : WidthFilter(width, its[id].color)}

\* The store after POST /upload-excel of a.xlsx into the empty store.
InitSearch ==
    \E df \in SearchFramesUpTo(MaxSearchRows) \ {<<>>} :
        LET result == save_to_database(EmptyCatalog, FileA, df, NoFault)
        IN  /\ items = result.db.items
            /\ style_summary = result.db.style_summary
            /\ file_uploads = (FileA :>
                    [ filename |-> FileA, status |-> "completed",
                      styles_count |-> result.styles_processed,
                      items_count |-> result.items_saved, images_uploaded |-> 0 ])
            /\ inventory_actions = <<>>
            /\ images = {}
            /\ last = [op |-> "init", code |-> 0]
            /\ nreq = 0
            /\ sessions = <<>>

SearchInventory ==
    /\ last.op = "init"
    /\ \E width \in {"regular", "wide", "extra_wide", "narrow"} :
          last' = [op |-> "search_inventory", code |-> 200, width |-> width,
                   ids |-> search_inventory(items, width),
                   total |-> Cardinality(search_inventory(items, width))]
    /\ nreq' = nreq + 1
    /\ UNCHANGED <<items, style_summary, file_uploads, inventory_actions, images, sessions>>

NextSearch == SearchInventory

SpecSearch == InitSearch /\ [][NextSearch]_vars

\* C30: for each width value regular, wide, extra_wide, the search with that
\* width filter returns exactly the Items whose color parse_width gives that
\* width, so that every Item is returned under exactly one of the three.
C30_WidthFilterMatchesParseWidth ==
    (last.op = "search_inventory" /\ last.width \in {"regular", "wide", "extra_wide"}) =>
        /\ last.ids = {id \in DOMAIN items : parse_width(items[id].color) = last.width}
        /\ last.total = Cardinality(last.ids)
====
